---- MODULE Spec2Model ----
(***************************************************************************)
(* AeroVista: great-circle waypoints (utils/geodesic.ts), the flight       *)
(* timeline with sun events and statistics (utils/timeline.ts) and the     *)
(* cabin sun-exposure classifier (utils/aircraft.ts).                      *)
(*                                                                         *)
(* Numbers.  A JavaScript number is modelled as an exact extended          *)
(* rational <<n, d>> in lowest terms with d >= 0: d > 0 is the finite      *)
(* value n/d, <<1,0>> and <<-1,0>> are +Infinity and -Infinity and <<0,0>> *)
(* is NaN.  Rounding of IEEE doubles is not modelled; division by zero,    *)
(* NaN propagation and NaN comparisons are.                                *)
(*                                                                         *)
(* Geometry.  Routes are taken along the equator (lat = 0).  There the     *)
(* trigonometric formulas of geodesic.ts have closed forms in the          *)
(* longitudes, which the operators below compute; each operator says which *)
(* formula it is the closed form of.                                       *)
(*                                                                         *)
(* Sun.  calculateSunPosition is not evaluated: the position it returns    *)
(* for a point is an input, drawn from SunSamples.                         *)
(***************************************************************************)
EXTENDS Integers, Sequences, FiniteSets

VARIABLES
  pc,             \* which call has completed: "start", "waypoints", "timeline",
                  \* "analyzed", "threw" after an exception; "input" and "display"
                  \* for the two screens of App; "call" and "returned"
                  \* around a direct call of a solar function; "search"
                  \* inside the loop of findSunEvent
  origin,         \* {lat, lon} of the departure airport
  destination,    \* {lat, lon} of the arrival airport
  numPoints,      \* options.numPoints
  cruisingSpeed,  \* options.cruisingSpeed (km/h)
  departureTime,  \* departureTime.getTime(), whole milliseconds
  waypoints,      \* the result of generateWaypoints
  timeline,       \* the result of generateFlightTimeline
  analysis,       \* the result of analyzeFlightSunExposure
  heading,        \* arguments of a direct call of calculateAircraftSunExposure
  sunAzimuth,
  sunAltitude,
  exposure,       \* and its result
  args,           \* arguments of a direct call of one of the solar functions
  result,         \* and its result
  currentIndex,   \* App state: the index of the point shown
  isPlaying,      \* App state: playback is on
  playbackSpeed,  \* App state: 0.5, 1 or 2, as a number n/d
  isDragging      \* TimelineScrubber state: the mouse is down on the progress bar

vars == <<pc, origin, destination, numPoints, cruisingSpeed, departureTime,
          waypoints, timeline, analysis, heading, sunAzimuth, sunAltitude, exposure,
          args, result, currentIndex, isPlaying, playbackSpeed, isDragging>>

routeVars == <<pc, origin, destination, numPoints, cruisingSpeed, departureTime,
               waypoints, timeline, analysis>>

exposureVars == <<heading, sunAzimuth, sunAltitude, exposure>>

solarVars == <<args, result>>

appVars == <<currentIndex, isPlaying, playbackSpeed, isDragging>>

----------------------------------------------------------------------------
(* Bounds of the model *)

\* numPoints ranges over 0..MaxPoints
MaxPoints == 3

----------------------------------------------------------------------------
(* JavaScript numbers *)

Abs(x) == IF x < 0 THEN -x ELSE x

Sign(x) == IF x < 0 THEN -1 ELSE IF x > 0 THEN 1 ELSE 0

RECURSIVE GCD(_, _)
GCD(a, b) == IF b = 0 THEN a ELSE GCD(b, a % b)

\* the element of a one-element set: TheOne({e(x) : x \in {v}}) is e(v), with v
\* computed once, before e
TheOne(S) == CHOOSE x \in S : TRUE

\* the number n/d
Num(n, d) ==
  IF d = 0 THEN <<Sign(n), 0>>
  ELSE LET g == GCD(Abs(n), Abs(d))
           s == Sign(d)
       IN  <<(s * n) \div g, (s * d) \div g>>

Whole(n) == <<n, 1>>

NaN == <<0, 0>>

Infinity == <<1, 0>>

IsNaN(a) == a = NaN

IsFinite(a) == a[2] # 0

FNeg(a) == <<-a[1], a[2]>>

FAbs(a) == <<Abs(a[1]), a[2]>>

\* a + b
FAdd(a, b) ==
  IF IsNaN(a) \/ IsNaN(b) THEN NaN
  ELSE IF ~IsFinite(a) /\ ~IsFinite(b) THEN (IF a = b THEN a ELSE NaN)
  ELSE IF ~IsFinite(a) THEN a
  ELSE IF ~IsFinite(b) THEN b
  ELSE LET g == GCD(a[2], b[2])
       IN  Num(a[1] * (b[2] \div g) + b[1] * (a[2] \div g), (a[2] \div g) * b[2])

\* a - b
FSub(a, b) == FAdd(a, FNeg(b))

\* a * b
FMul(a, b) ==
  IF ~IsFinite(a) \/ ~IsFinite(b) THEN <<Sign(a[1]) * Sign(b[1]), 0>>
  ELSE IF a[1] = 0 \/ b[1] = 0 THEN <<0, 1>>
  ELSE LET g1 == GCD(Abs(a[1]), b[2])
           g2 == GCD(Abs(b[1]), a[2])
       IN  Num((a[1] \div g1) * (b[1] \div g2), (a[2] \div g2) * (b[2] \div g1))

\* 1 / a
FInv(a) ==
  IF IsNaN(a) THEN NaN
  ELSE IF ~IsFinite(a) THEN <<0, 1>>
  ELSE IF a[1] = 0 THEN Infinity
  ELSE Num(a[2], a[1])

\* a / b
FDiv(a, b) == FMul(a, FInv(b))

\* n1/d1 < n2/d2 for d1, d2 > 0, by comparing the integer parts and then the
\* reciprocals of the fractional parts
RECURSIVE RatLess(_, _, _, _)
RatLess(n1, d1, n2, d2) ==
  LET q1 == n1 \div d1
      q2 == n2 \div d2
      r1 == n1 % d1
      r2 == n2 % d2
  IN  IF q1 # q2 THEN q1 < q2
      ELSE IF r2 = 0 THEN FALSE
      ELSE IF r1 = 0 THEN TRUE
      ELSE RatLess(d2, r2, d1, r1)

\* a < b; false when either is NaN
FLt(a, b) ==
  IF IsNaN(a) \/ IsNaN(b) THEN FALSE
  ELSE IF ~IsFinite(a) THEN a[1] < 0 /\ b # a
  ELSE IF ~IsFinite(b) THEN b[1] > 0
  ELSE RatLess(a[1], a[2], b[1], b[2])

\* a === b; false when either is NaN
FEq(a, b) == ~IsNaN(a) /\ ~IsNaN(b) /\ a = b

FLe(a, b) == FLt(a, b) \/ FEq(a, b)

FGt(a, b) == FLt(b, a)

FGe(a, b) == FLe(b, a)

\* Math.floor of a finite number
Floor(a) == a[1] \div a[2]

\* the integer part of a finite number (ToIntegerOrInfinity, as new Date(ms) applies it)
Trunc(a) == IF a[1] >= 0 THEN a[1] \div a[2] ELSE -((-a[1]) \div a[2])

\* x || d
OrElse(x, d) == IF IsNaN(x) \/ x = Whole(0) THEN d ELSE x

----------------------------------------------------------------------------
(* utils/geodesic.ts *)

EARTH_RADIUS_KM == 6371

\* Math.PI, by the rational 22/7
PI == Num(22, 7)

\* toRadians(degrees) = degrees * Math.PI / 180
toRadians(degrees) == FDiv(FMul(degrees, PI), Whole(180))

\* The angle of the direction (cos x, sin x) in degrees, in (-180, 180]:
\* toDegrees(Math.atan2(sin x, cos x)) for x in degrees.
WrapDeg(x) ==
  IF ~IsFinite(x) THEN NaN
  ELSE FAdd(x, Whole(360 * Floor(FDiv(FSub(Whole(180), x), Whole(360)))))

\* calculateDistance on the equator.  With lat1 = lat2 = 0 the haversine term is
\* a = sin^2(dLon/2) and c = 2*atan2(sqrt(a), sqrt(1-a)) is the angle between the two
\* meridians, |WrapDeg(lon2 - lon1)| in radians.
calculateDistance(lat1, lon1, lat2, lon2) ==
  FMul(Whole(EARTH_RADIUS_KM), toRadians(FAbs(WrapDeg(FSub(lon2, lon1)))))

\* calculateInitialBearing on the equator.  With lat1 = lat2 = 0: x = 0 and
\* y = sin(dLon), so theta = atan2(sin(dLon), 0) is 90 for sin > 0, -90 for sin < 0
\* and 0 for sin = 0; the result is (theta + 360) % 360.
calculateInitialBearing(lat1, lon1, lat2, lon2) ==
  LET d == WrapDeg(FSub(lon2, lon1))
  IN  IF IsNaN(d) THEN NaN
      ELSE IF FGt(d, Whole(0)) /\ FLt(d, Whole(180)) THEN Whole(90)
      ELSE IF FLt(d, Whole(0)) THEN Whole(270)
      ELSE Whole(0)

\* ZeroDistance without the guard: the slerp is applied to every pair of points
ZeroDistance_Never(delta) == FALSE

\* the guard "delta < 0.00001" of intermediatePoint
ZeroDistance(delta) == FLt(delta, Num(1, 100000))

\* the slerp of intermediatePoint on the equator, delta being the angle between p1 and
\* p2.  a = sin((1 - fraction) * delta) / sin(delta) and b = sin(fraction * delta) /
\* sin(delta) are 0 / 0 = NaN for delta = 0, and so are x, y, z and the point.
\* Otherwise a*p1 + b*p2 is the unit vector at longitude lon1 + fraction *
\* WrapDeg(lon2 - lon1), and atan2 returns it in (-180, 180].
Slerp(p1, p2, fraction, delta) ==
  IF delta = Whole(0) \/ IsNaN(delta) THEN [lat |-> NaN, lon |-> NaN]
  ELSE [lat |-> Whole(0),
        lon |-> WrapDeg(FAdd(p1.lon, FMul(fraction, WrapDeg(FSub(p2.lon, p1.lon)))))]

\* intermediatePoint(p1, p2, fraction)
intermediatePoint(p1, p2, fraction) ==
  LET distance == calculateDistance(p1.lat, p1.lon, p2.lat, p2.lon)
      delta    == FDiv(distance, Whole(EARTH_RADIUS_KM))
  IN  IF ZeroDistance(delta) THEN [lat |-> p1.lat, lon |-> p1.lon]
      ELSE Slerp(p1, p2, fraction, delta)

\* AntimeridianFrom that moves a longitude by half a turn
RECURSIVE AntimeridianFrom_HalfTurn(_, _)
AntimeridianFrom_HalfTurn(wps, i) ==
  IF i > Len(wps) THEN wps
  ELSE LET diff == FSub(wps[i].lon, wps[i - 1].lon)
           lon  == IF FGt(diff, Whole(180)) THEN FSub(wps[i].lon, Whole(180))
                   ELSE IF FLt(diff, Whole(-180)) THEN FAdd(wps[i].lon, Whole(180))
                   ELSE wps[i].lon
       IN  AntimeridianFrom_HalfTurn([wps EXCEPT ![i].lon = lon], i + 1)

\* handleAntimeridianCrossing, from index i on: each longitude is compared with the
\* already corrected longitude before it
RECURSIVE AntimeridianFrom(_, _)
AntimeridianFrom(wps, i) ==
  IF i > Len(wps) THEN wps
  ELSE LET diff == FSub(wps[i].lon, wps[i - 1].lon)
           lon  == IF FGt(diff, Whole(180)) THEN FSub(wps[i].lon, Whole(360))
                   ELSE IF FLt(diff, Whole(-180)) THEN FAdd(wps[i].lon, Whole(360))
                   ELSE wps[i].lon
       IN  AntimeridianFrom([wps EXCEPT ![i].lon = lon], i + 1)

\* handleAntimeridianCrossing that corrects nothing
handleAntimeridianCrossing_Skipped(wps) == wps

handleAntimeridianCrossing(wps) == AntimeridianFrom(wps, 2)

\* WaypointFraction with numPoints + 1 for numPoints
WaypointFraction_OverNPlus1(i, n) == FDiv(Whole(i), Whole(n + 1))

\* fraction = i / numPoints
WaypointFraction(i, n) == FDiv(Whole(i), Whole(n))

\* WaypointDistance rounded down to whole kilometres
WaypointDistance_WholeKm(totalDistance, fraction) ==
  Whole(Floor(FMul(totalDistance, fraction)))

\* distance: totalDistance * fraction
WaypointDistance(totalDistance, fraction) == FMul(totalDistance, fraction)

\* NextFraction with i for i + 1: the bearing is taken from the point to itself
NextFraction_OfPoint(i, n) == FDiv(Whole(i), Whole(n))

\* (i + 1) / numPoints, the fraction of nextPoint
NextFraction(i, n) == FDiv(Whole(i + 1), Whole(n))

\* the waypoint pushed by iteration i of the loop of generateWaypoints, wps being
\* the waypoints pushed so far
LoopWaypoint(o, d, n, i, wps) ==
  LET totalDistance == calculateDistance(o.lat, o.lon, d.lat, d.lon)
      fraction      == WaypointFraction(i, n)
      point         == intermediatePoint(o, d, fraction)
      nextPoint     == intermediatePoint(o, d, NextFraction(i, n))
      bearing       == IF i < n
                       THEN calculateInitialBearing(point.lat, point.lon,
                                                    nextPoint.lat, nextPoint.lon)
                       ELSE wps[i].bearing   \* waypoints[i - 1], 0-based
  IN  [lat |-> point.lat, lon |-> point.lon,
       distance |-> WaypointDistance(totalDistance, fraction), bearing |-> bearing]

\* for (let i = 0; i <= numPoints; i++) waypoints.push(...), from iteration i on;
\* iteration 0 always runs, and the loop ends once numPoints + 1 waypoints are pushed
RECURSIVE WaypointLoop(_, _, _, _, _)
WaypointLoop(o, d, n, i, wps) ==
  LET pushed == Append(wps, LoopWaypoint(o, d, n, i, wps))
  IN  IF Len(pushed) > n THEN pushed ELSE WaypointLoop(o, d, n, i + 1, pushed)

\* "bearing = waypoints[i - 1].bearing" throws a TypeError: the else branch is taken
\* (i < numPoints is false) and waypoints[i - 1] is undefined
PreviousBearingThrows(n, i, wps) == ~(i < n) /\ (i - 1) \notin 0..(Len(wps) - 1)

\* generateWaypoints(origin, destination, numPoints) throws: iteration 0 does
generateWaypointsThrows(n) == PreviousBearingThrows(n, 0, <<>>)

\* generateWaypoints with the loop condition i < numPoints
generateWaypoints_LoopBelowN(o, d, n) ==
  handleAntimeridianCrossing(SubSeq(WaypointLoop(o, d, n, 0, <<>>), 1, n))

\* generateWaypoints(origin, destination, numPoints) when it does not throw
generateWaypoints(o, d, n) ==
  handleAntimeridianCrossing(WaypointLoop(o, d, n, 0, <<>>))

----------------------------------------------------------------------------
(* utils/aircraft.ts: calculateAircraftSunExposure *)

\* RelativeBearing without its second step (relativeBearing < -180)
RelativeBearing_NoLowerStep(aircraftHeading, azimuth) ==
  LET r0 == FSub(azimuth, aircraftHeading)
  IN  IF FGt(r0, Whole(180)) THEN FSub(r0, Whole(360)) ELSE r0

\* relativeBearing = sunAzimuth - aircraftHeading, then the two normalising steps
RelativeBearing(aircraftHeading, azimuth) ==
  LET r0 == FSub(azimuth, aircraftHeading)
      r1 == IF FGt(r0, Whole(180)) THEN FSub(r0, Whole(360)) ELSE r0
  IN  IF FLt(r1, Whole(-180)) THEN FAdd(r1, Whole(360)) ELSE r1

\* SideRule with "sunAltitude >= 70" for the overhead branch
SideRule_OverheadFrom70(relativeBearing, altitude) ==
  IF FLt(altitude, Whole(-6)) THEN [side |-> "NONE", rule |-> "night"]
  ELSE IF FGe(altitude, Whole(-6)) /\ FLt(altitude, Whole(0))
    THEN [side |-> "NONE", rule |-> "twilight"]
  ELSE IF FGe(altitude, Whole(70)) THEN [side |-> "OVERHEAD", rule |-> "overhead"]
  ELSE IF FGe(relativeBearing, Whole(-30)) /\ FLe(relativeBearing, Whole(30))
    THEN [side |-> "NONE", rule |-> "ahead"]
  ELSE IF FGe(relativeBearing, Whole(150)) \/ FLe(relativeBearing, Whole(-150))
    THEN [side |-> "NONE", rule |-> "behind"]
  ELSE IF FGt(relativeBearing, Whole(0)) THEN [side |-> "RIGHT", rule |-> "right"]
  ELSE [side |-> "LEFT", rule |-> "left"]

\* The if / else-if chain that sets side.  "rule" names the branch taken; the
\* recommendation text is the branch's message, whose variants inside a branch
\* are not told apart.
SideRule(relativeBearing, altitude) ==
  IF FLt(altitude, Whole(-6)) THEN [side |-> "NONE", rule |-> "night"]
  ELSE IF FGe(altitude, Whole(-6)) /\ FLt(altitude, Whole(0))
    THEN [side |-> "NONE", rule |-> "twilight"]
  ELSE IF FGt(altitude, Whole(70)) THEN [side |-> "OVERHEAD", rule |-> "overhead"]
  ELSE IF FGe(relativeBearing, Whole(-30)) /\ FLe(relativeBearing, Whole(30))
    THEN [side |-> "NONE", rule |-> "ahead"]
  ELSE IF FGe(relativeBearing, Whole(150)) \/ FLe(relativeBearing, Whole(-150))
    THEN [side |-> "NONE", rule |-> "behind"]
  ELSE IF FGt(relativeBearing, Whole(0)) THEN [side |-> "RIGHT", rule |-> "right"]
  ELSE [side |-> "LEFT", rule |-> "left"]

calculateAircraftSunExposure(aircraftHeading, azimuth, altitude) ==
  LET relativeBearing == RelativeBearing(aircraftHeading, azimuth)
      chosen          == SideRule(relativeBearing, altitude)
  IN  [side            |-> chosen.side,
       relativeBearing |-> relativeBearing,
       sunAngle        |-> FAbs(relativeBearing),
       rule            |-> chosen.rule]

----------------------------------------------------------------------------
(* utils/timeline.ts *)

SUNRISE_SUNSET_ALTITUDE == Num(-833, 1000)

DefaultNumPoints == 150

DefaultCruisingSpeed == 850

DefaultCruisingAltitude == 37000

\* what calculateSunPosition returns for azimuth and refracted altitude
SunPosition(azimuth, altitude) ==
  [azimuth |-> azimuth, altitude |-> altitude, zenith |-> FSub(Whole(90), altitude)]

\* A Date at a whole second is held as its time value in seconds, t.  Its UTC fields
\* are those of the day number t \div 86400 in the proleptic Gregorian calendar, by
\* the civil-from-days computation on eras of 400 years (146097 days) from 0000-03-01.
DayOfEra(t) == ((t \div 86400) + 719468) % 146097

YearOfEra(t) ==
  LET doe == DayOfEra(t)
  IN  (doe - doe \div 1460 + doe \div 36524 - doe \div 146096) \div 365

\* the day of the year that starts on March 1
DayOfMarchYear(t) ==
  LET yoe == YearOfEra(t)
  IN  DayOfEra(t) - (365 * yoe + yoe \div 4 - yoe \div 100)

\* date.getUTCMonth(), 0 for January
getUTCMonth(t) ==
  LET mp == (5 * DayOfMarchYear(t) + 2) \div 153
  IN  IF mp < 10 THEN mp + 2 ELSE mp - 10

\* date.getUTCDate()
getUTCDate(t) ==
  LET mp == (5 * DayOfMarchYear(t) + 2) \div 153
  IN  DayOfMarchYear(t) - (153 * mp + 2) \div 5 + 1

\* date.getUTCFullYear()
getUTCFullYear(t) ==
  YearOfEra(t) + (((t \div 86400) + 719468) \div 146097) * 400
  + (IF getUTCMonth(t) <= 1 THEN 1 ELSE 0)

getUTCHours(t) == (t % 86400) \div 3600

getUTCMinutes(t) == (t % 3600) \div 60

getUTCSeconds(t) == t % 60

\* JulianMonth without the + 1
JulianMonth_ZeroBased(t) == getUTCMonth(t)

\* month = date.getUTCMonth() + 1
JulianMonth(t) == getUTCMonth(t) + 1

\* getJulianDay(date).  The number returned is jdn + fraction; it is held as the pair
\* of the two, the product of a Julian Day and 86400 being beyond a 32-bit integer.
getJulianDay(t) ==
  LET year  == getUTCFullYear(t)
      month == JulianMonth(t)
      day   == getUTCDate(t)
      a     == (14 - month) \div 12
      y     == year + 4800 - a
      m     == month + 12 * a - 3
      jdn   == day + (153 * m + 2) \div 5 + 365 * y + y \div 4 - y \div 100
               + y \div 400 - 32045
      fraction == FAdd(FAdd(Num(getUTCHours(t) - 12, 24), Num(getUTCMinutes(t), 1440)),
                       Num(getUTCSeconds(t), 86400))
  IN  [jdn |-> jdn, fraction |-> fraction]

\* jd2 - jd1 for two numbers returned by getJulianDay
JulianDifference(jd2, jd1) ==
  FAdd(Whole(jd2.jdn - jd1.jdn), FSub(jd2.fraction, jd1.fraction))

\* a % b for finite a and b > 0: the remainder has the sign of a
FMod(a, b) ==
  IF ~IsFinite(a) \/ ~IsFinite(b) THEN NaN
  ELSE FSub(a, FMul(b, Whole(Trunc(FDiv(a, b)))))

\* toDegrees(Math.asin(x)) at the sines tabulated; NaN outside [-1, 1]
asinDeg(x) ==
  IF IsNaN(x) \/ FGt(x, Whole(1)) \/ FLt(x, Whole(-1)) THEN NaN
  ELSE CASE x = Whole(-1)  -> Whole(-90)
         [] x = Num(-1, 2) -> Whole(-30)
         [] x = Whole(0)   -> Whole(0)
         [] x = Num(1, 2)  -> Whole(30)
         [] x = Whole(1)   -> Whole(90)

\* toDegrees(Math.acos(x)) at the cosines tabulated; NaN outside [-1, 1]
acosDeg(x) ==
  IF IsNaN(x) \/ FGt(x, Whole(1)) \/ FLt(x, Whole(-1)) THEN NaN
  ELSE CASE x = Whole(-1)  -> Whole(180)
         [] x = Num(-1, 2) -> Whole(120)
         [] x = Whole(0)   -> Whole(90)
         [] x = Num(1, 2)  -> Whole(60)
         [] x = Whole(1)   -> Whole(0)

\* Math.min(a, b) and Math.max(a, b): NaN when either is NaN
MathMin(a, b) == IF IsNaN(a) \/ IsNaN(b) THEN NaN ELSE IF FLt(b, a) THEN b ELSE a

MathMax(a, b) == IF IsNaN(a) \/ IsNaN(b) THEN NaN ELSE IF FGt(b, a) THEN b ELSE a

\* getRefractionCorrection(altitude): 0 above 85 degrees; below, the positive
\* correction given, which stands for the value of the branch taken; NaN for NaN,
\* which fails every test and reaches -20.774 / tanDeg(NaN) / 3600
getRefractionCorrection(altitude, correction) ==
  IF IsNaN(altitude) THEN NaN
  ELSE IF FGt(altitude, Whole(85)) THEN Whole(0)
  ELSE correction

\* (azimuth + 360) % 360
NormalizeAzimuth(azimuth) == FMod(FAdd(azimuth, Whole(360)), Whole(360))

\* calculateSunPosition from line 404 on.  sinAlt is the sum of line 402 as rounded,
\* cosAz the quotient of line 408 for an altitude that is a number, sinHaPositive the
\* test of line 416, correction the refraction below 85 degrees.
calculateSunPosition(sinAlt, cosAz, sinHaPositive, correction) ==
  LET altitude  == asinDeg(sinAlt)
      quotient  == IF IsNaN(altitude) THEN NaN ELSE cosAz
      azimuth0  == acosDeg(MathMax(Whole(-1), MathMin(Whole(1), quotient)))
      azimuth   == IF sinHaPositive THEN FSub(Whole(360), azimuth0) ELSE azimuth0
      altitudeRefracted == FAdd(altitude, getRefractionCorrection(altitude, correction))
  IN  [azimuth  |-> NormalizeAzimuth(azimuth),
       altitude |-> altitudeRefracted,
       zenith   |-> FSub(Whole(90), altitudeRefracted)]

\* isDaylight: sunPos.altitude > SUNRISE_SUNSET_ALTITUDE
IsDaylight(altitude) == FGt(altitude, SUNRISE_SUNSET_ALTITUDE)

\* new Date(ms).getTime() for a finite ms: the time value is cut to whole milliseconds
NewDate(ms) == Trunc(ms)

\* totalDuration = (totalDistance / cruisingSpeed) * 60
TotalDuration(totalDistance, speed) ==
  FMul(FDiv(totalDistance, Whole(speed)), Whole(60))

\* ElapsedMinutes with index / waypoints.length
ElapsedMinutes_OverLength(totalDuration, index, len) ==
  FMul(totalDuration, FDiv(Whole(index), Whole(len)))

\* elapsedMinutes = totalDuration * (index / (waypoints.length - 1)), index 0-based
ElapsedMinutes(totalDuration, index, len) ==
  FMul(totalDuration, FDiv(Whole(index), Whole(len - 1)))

\* Timestamp without the conversion of minutes to milliseconds
Timestamp_MinutesAsMs(departure, elapsedMinutes) ==
  NewDate(FAdd(Whole(departure), elapsedMinutes))

\* timestamp = new Date(departureTime.getTime() + elapsedMinutes * 60000)
Timestamp(departure, elapsedMinutes) ==
  NewDate(FAdd(Whole(departure), FMul(elapsedMinutes, Whole(60000))))

\* the body of waypoints.map: the timeline point of waypoint wp at 0-based index
TimelinePoint(wp, index, len, totalDuration, departure, speed, sunPos) ==
  LET elapsedMinutes == ElapsedMinutes(totalDuration, index, len)
  IN  [lat            |-> wp.lat,
       lon            |-> wp.lon,
       distance       |-> wp.distance,
       timestamp      |-> Timestamp(departure, elapsedMinutes),
       elapsedMinutes |-> elapsedMinutes,
       sunAzimuth     |-> sunPos.azimuth,
       sunAltitude    |-> sunPos.altitude,
       sunZenith      |-> sunPos.zenith,
       isDaylight     |-> IsDaylight(sunPos.altitude),
       heading        |-> wp.bearing,
       speed          |-> speed,
       altitude       |-> DefaultCruisingAltitude]

\* EventAt with the event's timestamp and place taken from the earlier point
EventAt_FromEarlier(points, k) ==
  LET prev == points[k - 1]
      curr == points[k]
      ev(type) == [type |-> type, timestamp |-> prev.timestamp,
                   lat |-> prev.lat, lon |-> prev.lon, pointIndex |-> k - 1]
  IN  (IF prev.isDaylight /\ ~curr.isDaylight THEN <<ev("sunset")>> ELSE <<>>)
      \o (IF ~prev.isDaylight /\ curr.isDaylight THEN <<ev("sunrise")>> ELSE <<>>)

\* the event pushed for the pair (points[k-1], points[k]) (1-based k >= 2), if any;
\* pointIndex is the 0-based index of the later point
EventAt(points, k) ==
  LET prev == points[k - 1]
      curr == points[k]
      ev(type) == [type |-> type, timestamp |-> curr.timestamp,
                   lat |-> curr.lat, lon |-> curr.lon, pointIndex |-> k - 1]
  IN  (IF prev.isDaylight /\ ~curr.isDaylight THEN <<ev("sunset")>> ELSE <<>>)
      \o (IF ~prev.isDaylight /\ curr.isDaylight THEN <<ev("sunrise")>> ELSE <<>>)

\* SunEventsFrom with the events of later points listed first
RECURSIVE SunEventsFrom_LatestFirst(_, _)
SunEventsFrom_LatestFirst(points, k) ==
  IF k > Len(points) THEN <<>>
  ELSE SunEventsFrom_LatestFirst(points, k + 1) \o EventAt(points, k)

\* the events pushed by the loop of detectSunEvents from point k (counted from 1) on
RECURSIVE SunEventsFrom(_, _)
SunEventsFrom(points, k) ==
  IF k > Len(points) THEN <<>>
  ELSE EventAt(points, k) \o SunEventsFrom(points, k + 1)

detectSunEvents(points) == SunEventsFrom(points, 2)

RECURSIVE SumAltitudes(_, _)
SumAltitudes(points, k) ==
  IF k > Len(points) THEN Whole(0)
  ELSE FAdd(points[k].sunAltitude, SumAltitudes(points, k + 1))

\* points.filter(p => p.isDaylight).length
DaylightCount(points) == Cardinality({k \in 1..Len(points) : points[k].isDaylight})

\* DaylightMinutes with points.length - 1 for points.length
DaylightMinutes_OverSegments(points, totalDuration) ==
  FMul(FDiv(Whole(DaylightCount(points)), Whole(Len(points) - 1)), totalDuration)

\* daylightMinutes = (daylightPoints.length / points.length) * totalDuration
DaylightMinutes(points, totalDuration) ==
  FMul(FDiv(Whole(DaylightCount(points)), Whole(Len(points))), totalDuration)

calculateStatistics(points) ==
  LET totalDuration   == points[Len(points)].elapsedMinutes
      daylightMinutes == DaylightMinutes(points, totalDuration)
      darknessMinutes == FSub(totalDuration, daylightMinutes)
      alts            == {points[k].sunAltitude : k \in 1..Len(points)}
  IN  [daylightMinutes    |-> daylightMinutes,
       darknessMinutes    |-> darknessMinutes,
       daylightPercentage |-> FMul(FDiv(daylightMinutes, totalDuration), Whole(100)),
       averageSunAltitude |-> FDiv(SumAltitudes(points, 1), Whole(Len(points))),
       maxSunAltitude     |-> CHOOSE a \in alts : \A b \in alts : FLe(b, a),
       minSunAltitude     |-> CHOOSE a \in alts : \A b \in alts : FLe(a, b)]

\* waypoints.map((wp, index) => ...), from the waypoint at 1-based k on
RECURSIVE MapPoints(_, _, _, _, _, _)
MapPoints(wps, totalDuration, departure, speed, suns, k) ==
  IF k > Len(wps) THEN <<>>
  ELSE <<TimelinePoint(wps[k], k - 1, Len(wps), totalDuration, departure, speed, suns[k])>>
       \o MapPoints(wps, totalDuration, departure, speed, suns, k + 1)

\* generateFlightTimeline(origin, destination, departureTime, {numPoints, cruisingSpeed})
\* from its waypoints on: wps is generateWaypoints(origin, destination, numPoints) and
\* suns[k] is what calculateSunPosition returns for waypoint k (1-based)
generateFlightTimeline(wps, o, d, departure, speed, suns) ==
  LET totalDistance == wps[Len(wps)].distance
      totalDuration == TotalDuration(totalDistance, speed)
      points        == MapPoints(wps, totalDuration, departure, speed, suns, 1)
  IN  [points        |-> points,
       origin        |-> o,
       destination   |-> d,
       totalDistance |-> totalDistance,
       totalDuration |-> totalDuration,
       sunEvents     |-> detectSunEvents(points),
       statistics    |-> calculateStatistics(points)]

----------------------------------------------------------------------------
(* utils/aircraft.ts: analyzeFlightSunExposure *)

\* MinutePerPoint with points.length - 1 for points.length
MinutePerPoint_OverSegments(tl) == FDiv(tl.totalDuration, Whole(Len(tl.points) - 1))

\* minutePerPoint = timeline.totalDuration / timeline.points.length
MinutePerPoint(tl) == FDiv(tl.totalDuration, Whole(Len(tl.points)))

\* the side the forEach body charges a point's slice to
PointSide(point) ==
  calculateAircraftSunExposure(point.heading,
                               OrElse(point.sunAzimuth, Whole(0)),
                               OrElse(point.sunAltitude, Whole(-90))).side

\* the minutes accumulated for one side over the first k points
RECURSIVE SideMinutesFrom(_, _, _, _)
SideMinutesFrom(points, side, minutePerPoint, k) ==
  IF k = 0 THEN Whole(0)
  ELSE LET before == SideMinutesFrom(points, side, minutePerPoint, k - 1)
       IN  IF PointSide(points[k]) = side THEN FAdd(before, minutePerPoint) ELSE before

\* Recommendation with the full-daytime rule tried before the two side rules
Recommendation_DaytimeBeforeSides(leftMinutes, rightMinutes, overheadMinutes, noSunMinutes, tl) ==
  LET totalDaylight   == FAdd(FAdd(leftMinutes, rightMinutes), overheadMinutes)
      daylightPercent == FMul(FDiv(totalDaylight, tl.totalDuration), Whole(100))
  IN  IF FGt(noSunMinutes, FMul(tl.totalDuration, Num(8, 10))) THEN "red-eye"
      ELSE IF FGt(overheadMinutes, FMul(tl.totalDuration, Num(4, 10))) THEN "tropical"
      ELSE IF FGt(daylightPercent, Whole(80)) THEN "daytime"
      ELSE IF FGt(leftMinutes, FMul(rightMinutes, Whole(2)))
        THEN IF FGt(FDiv(leftMinutes, totalDaylight), Num(7, 10))
             THEN "LEFT most" ELSE "LEFT more"
      ELSE IF FGt(rightMinutes, FMul(leftMinutes, Whole(2)))
        THEN IF FGt(FDiv(rightMinutes, totalDaylight), Num(7, 10))
             THEN "RIGHT most" ELSE "RIGHT more"
      ELSE IF Len(tl.sunEvents) > 0
        THEN IF tl.sunEvents[1].type = "sunrise" THEN "sunrise" ELSE "sunset"
      ELSE "balanced"

\* Recommendation with the two side rules matching from twice the other side on
Recommendation_SidesFromTwice(leftMinutes, rightMinutes, overheadMinutes, noSunMinutes, tl) ==
  LET totalDaylight   == FAdd(FAdd(leftMinutes, rightMinutes), overheadMinutes)
      daylightPercent == FMul(FDiv(totalDaylight, tl.totalDuration), Whole(100))
  IN  IF FGt(noSunMinutes, FMul(tl.totalDuration, Num(8, 10))) THEN "red-eye"
      ELSE IF FGt(overheadMinutes, FMul(tl.totalDuration, Num(4, 10))) THEN "tropical"
      ELSE IF FGe(leftMinutes, FMul(rightMinutes, Whole(2)))
        THEN IF FGt(FDiv(leftMinutes, totalDaylight), Num(7, 10))
             THEN "LEFT most" ELSE "LEFT more"
      ELSE IF FGe(rightMinutes, FMul(leftMinutes, Whole(2)))
        THEN IF FGt(FDiv(rightMinutes, totalDaylight), Num(7, 10))
             THEN "RIGHT most" ELSE "RIGHT more"
      ELSE IF FGt(daylightPercent, Whole(80)) THEN "daytime"
      ELSE IF Len(tl.sunEvents) > 0
        THEN IF tl.sunEvents[1].type = "sunrise" THEN "sunrise" ELSE "sunset"
      ELSE "balanced"

\* the branch of the recommendation chain that is taken, named by its message
Recommendation(leftMinutes, rightMinutes, overheadMinutes, noSunMinutes, tl) ==
  LET totalDaylight   == FAdd(FAdd(leftMinutes, rightMinutes), overheadMinutes)
      daylightPercent == FMul(FDiv(totalDaylight, tl.totalDuration), Whole(100))
  IN  IF FGt(noSunMinutes, FMul(tl.totalDuration, Num(8, 10))) THEN "red-eye"
      ELSE IF FGt(overheadMinutes, FMul(tl.totalDuration, Num(4, 10))) THEN "tropical"
      ELSE IF FGt(leftMinutes, FMul(rightMinutes, Whole(2)))
        THEN IF FGt(FDiv(leftMinutes, totalDaylight), Num(7, 10))
             THEN "LEFT most" ELSE "LEFT more"
      ELSE IF FGt(rightMinutes, FMul(leftMinutes, Whole(2)))
        THEN IF FGt(FDiv(rightMinutes, totalDaylight), Num(7, 10))
             THEN "RIGHT most" ELSE "RIGHT more"
      ELSE IF FGt(daylightPercent, Whole(80)) THEN "daytime"
      ELSE IF Len(tl.sunEvents) > 0
        THEN IF tl.sunEvents[1].type = "sunrise" THEN "sunrise" ELSE "sunset"
      ELSE "balanced"

analyzeFlightSunExposure(tl) ==
  TheOne({
    TheOne({
      [leftSideMinutes  |-> total[1],
       rightSideMinutes |-> total[2],
       overheadMinutes  |-> total[3],
       noSunMinutes     |-> total[4],
       recommendation   |-> Recommendation(total[1], total[2], total[3], total[4], tl)]
      : total \in {<<SideMinutesFrom(tl.points, "LEFT", minutePerPoint, Len(tl.points)),
                     SideMinutesFrom(tl.points, "RIGHT", minutePerPoint, Len(tl.points)),
                     SideMinutesFrom(tl.points, "OVERHEAD", minutePerPoint,
                                     Len(tl.points)),
                     SideMinutesFrom(tl.points, "NONE", minutePerPoint,
                                     Len(tl.points))>>} })
    : minutePerPoint \in {MinutePerPoint(tl)} })

----------------------------------------------------------------------------
(* utils/daylight.ts *)

\* milliseconds of a day, an hour, a minute, a second
MsPerDay == 86400000

MsPerHour == 3600000

MsPerMinute == 60000

MsPerSecond == 1000

\* Date objects live on a heap: a sequence of time values, a Date being its index.
\* new Date(x): a new object with time value ms
AllocDate(h, ms) == [heap |-> Append(h, ms), ref |-> Len(h) + 1]

\* CopyDate that hands back the caller's object instead of a copy
CopyDate_SameObject(h, date) == [heap |-> h, ref |-> date]

\* new Date(date): a new object with the time value of date
CopyDate(h, date) == AllocDate(h, h[date])

\* date.setUTCHours(hour): the day of the date, the hour given (whatever its size),
\* the minutes, seconds and milliseconds of the date
setUTCHours(h, date, hour) ==
  LET t == h[date]
  IN  [h EXCEPT ![date] = (t \div MsPerDay) * MsPerDay + hour * MsPerHour + (t % MsPerHour)]

\* date.setUTCHours(hour, min, sec, ms)
setUTCHours4(h, date, hour, min, sec, ms) ==
  LET t == h[date]
  IN  [h EXCEPT ![date] = (t \div MsPerDay) * MsPerDay + hour * MsPerHour
                           + min * MsPerMinute + sec * MsPerSecond + ms]

\* date.setUTCMinutes(min): min is cut to an integer; the day and hour of the date
setUTCMinutes(h, date, min) ==
  LET t == h[date]
  IN  [h EXCEPT ![date] = (t \div MsPerHour) * MsPerHour + Trunc(min) * MsPerMinute
                           + (t % MsPerMinute)]

\* date.setUTCSeconds(0)
setUTCSeconds0(h, date) ==
  LET t == h[date]
  IN  [h EXCEPT ![date] = (t \div MsPerMinute) * MsPerMinute + (t % MsPerSecond)]

\* date.setUTCMilliseconds(0)
setUTCMilliseconds0(h, date) ==
  LET t == h[date]
  IN  [h EXCEPT ![date] = (t \div MsPerSecond) * MsPerSecond]

\* x % 1: the fractional part, with the sign of x
Mod1(x) == FSub(x, Whole(Trunc(x)))

\* solarNoonCorrected = 12 - lon / 15 + eot / 60, eot being the equation of time in
\* minutes that lines 103-108 compute for the date
SolarNoonCorrected(lon, eot) ==
  FAdd(FSub(Whole(12), FDiv(lon, Whole(15))), FDiv(eot, Whole(60)))

\* calculateSolarNoon(lat, lon, date): the heap after the call and the Date returned
calculateSolarNoon(h, lon, eot, date) ==
  LET solarNoonCorrected == SolarNoonCorrected(lon, eot)
      noonDate == CopyDate(h, date)
      h1 == setUTCHours(noonDate.heap, noonDate.ref, Floor(solarNoonCorrected))
      h2 == setUTCMinutes(h1, noonDate.ref, FMul(Mod1(solarNoonCorrected), Whole(60)))
      h3 == setUTCSeconds0(h2, noonDate.ref)
      h4 == setUTCMilliseconds0(h3, noonDate.ref)
  IN  [heap |-> h4, ref |-> noonDate.ref]

\* calculateSolarMidnight(lat, lon, date)
calculateSolarMidnight(h, lon, eot, date) ==
  LET noon == calculateSolarNoon(h, lon, eot, date)
  IN  AllocDate(noon.heap, NewDate(Whole(noon.heap[noon.ref] + 12 * 3600 * 1000)))

\* the distance in ms of instant t from the nearest local mean noon at longitude lon
FromMeanNoon(lon, t) ==
  LET noon  == Trunc(FMul(FSub(Whole(12), FDiv(lon, Whole(15))), Whole(MsPerHour)))
      phase == (t - noon) % MsPerDay
  IN  IF phase <= MsPerDay \div 2 THEN phase ELSE MsPerDay - phase

\* the refracted altitude calculateSunPosition(lat, lon, date) returns at instant t
\* under the sky given, which stands for the latitude and the season:
\*   "arc":   above the horizon (at high) within halfDay of local mean noon, in twilight
\*            (at -3) for the half hour before and after, below (at -20) otherwise
\*   "level": at the same altitude all day
\*   "step":  at before until instant at, at after from then on (the sun at a pole)
Altitude(sky, lon, t) ==
  IF sky.kind = "arc"
  THEN LET d == FromMeanNoon(lon, t)
       IN  IF d < sky.halfDay THEN sky.high
           ELSE IF d < sky.halfDay + MsPerHour \div 2 THEN Whole(-3)
           ELSE Whole(-20)
  ELSE IF sky.kind = "level" THEN sky.high
  ELSE IF t < sky.at THEN sky.before ELSE sky.after

\* TwilightType.CIVIL
CIVIL == Whole(-6)

MAX_ITERATIONS == 20

PRECISION_MS == 10000

\* the break test of the loop, on the time values of low and high; a time value is a
\* number of milliseconds, or NaN for an Invalid Date
WindowClosed_Never(low, high) == FALSE

WindowClosed(low, high) == FLt(FSub(high, low), Whole(PRECISION_MS))

\* SearchMid three quarters of the way from low to high
SearchMid_ThreeQuarters(low, high) ==
  TheOne({ IF IsNaN(at) THEN NaN ELSE Whole(NewDate(at))
           : at \in {FDiv(FAdd(low, FMul(Whole(3), high)), Whole(4))} })

\* the time value of mid = new Date((low.getTime() + high.getTime()) / 2)
SearchMid(low, high) ==
  TheOne({ IF IsNaN(half) THEN NaN ELSE Whole(NewDate(half))
           : half \in {FDiv(FAdd(low, high), Whole(2))} })

\* whether the iteration assigns low = mid (otherwise it assigns high = mid)
SearchLower(direction, altitude, targetAltitude) ==
  IF direction = "rise" THEN FLt(altitude, targetAltitude)
  ELSE FGt(altitude, targetAltitude)

\* the loop of findSunEvent from iteration i on, low and high being the time values
\* of the two Dates; the Date returned is high
RECURSIVE BinarySearch(_, _, _, _, _, _, _)
BinarySearch(lon, sky, targetAltitude, direction, low, high, i) ==
  IF i >= MAX_ITERATIONS \/ WindowClosed(Whole(low), Whole(high)) THEN high
  ELSE TheOne({ IF SearchLower(direction, Altitude(sky, lon, mid), targetAltitude)
                THEN BinarySearch(lon, sky, targetAltitude, direction,
                                  mid, high, i + 1)
                ELSE BinarySearch(lon, sky, targetAltitude, direction,
                                  low, mid, i + 1)
                : mid \in {SearchMid(Whole(low), Whole(high))[1]} })

\* findSunEvent(lat, lon, date, solarNoon, targetAltitude, direction): the heap after
\* the call and the time value of the Date returned.  The mid Dates are never written
\* to and are kept off the heap.
findSunEvent(h, lon, sky, date, solarNoon, targetAltitude, direction) ==
  TheOne({
    TheOne({
      TheOne({
        [heap |-> h1,
         time |-> BinarySearch(lon, sky, targetAltitude, direction,
                               ends[1], ends[2], 0)]
        : ends \in {IF direction = "rise"
                    THEN <<h1[bound.ref], h1[solarNoon]>>
                    ELSE <<h1[solarNoon], h1[bound.ref]>>} })
      : h1 \in {IF direction = "rise"
                THEN setUTCHours4(bound.heap, bound.ref, 0, 0, 0, 0)
                ELSE setUTCHours4(bound.heap, bound.ref, 23, 59, 59, 999)} })
    : bound \in {CopyDate(h, date)} })

\* a Date | null field: <<>> for null, <<time value>> for a Date
Null == <<>>

DateOf(time) == <<time>>

\* dayLength of calculateDaylightInfo; a Date is truthy, null is not
DayLength(isAlwaysDay, isAlwaysNight, sunrise, sunset) ==
  IF isAlwaysDay THEN Whole(24)
  ELSE IF isAlwaysNight THEN Whole(0)
  ELSE IF sunrise # Null /\ sunset # Null
    THEN FDiv(Whole(sunset[1] - sunrise[1]), Whole(3600000))
  ELSE Whole(0)

\* the four searches of calculateDaylightInfo, made when the sun neither stays up nor
\* stays down: the heap after them and the four Dates
SunEvents(h, lon, sky, date, solarNoon) ==
  TheOne({
    TheOne({
      TheOne({
        TheOne({
          [heap               |-> dusk.heap,
           sunrise            |-> DateOf(rise.time),
           sunset             |-> DateOf(set.time),
           civilTwilightStart |-> DateOf(dawn.time),
           civilTwilightEnd   |-> DateOf(dusk.time)]
          : dusk \in {findSunEvent(dawn.heap, lon, sky, date, solarNoon, CIVIL, "set")} })
        : dawn \in {findSunEvent(set.heap, lon, sky, date, solarNoon, CIVIL, "rise")} })
      : set \in {findSunEvent(rise.heap, lon, sky, date, solarNoon,
                              SUNRISE_SUNSET_ALTITUDE, "set")} })
    : rise \in {findSunEvent(h, lon, sky, date, solarNoon,
                             SUNRISE_SUNSET_ALTITUDE, "rise")} })

\* the four Dates as they are initialised, when no search is made
NoSunEvents(h) ==
  [heap               |-> h,
   sunrise            |-> Null,
   sunset             |-> Null,
   civilTwilightStart |-> Null,
   civilTwilightEnd   |-> Null]

\* calculateDaylightInfo(lat, lon, date): the heap after the call and the object
\* returned
calculateDaylightInfo(h, lon, eot, sky, date) ==
  TheOne({
    TheOne({
      TheOne({
        TheOne({
          TheOne({
            [heap |-> events.heap,
             info |-> [sunrise            |-> events.sunrise,
                       sunset             |-> events.sunset,
                       solarNoon          |-> events.heap[solarNoon.ref],
                       solarMidnight      |-> events.heap[solarMidnight.ref],
                       civilTwilightStart |-> events.civilTwilightStart,
                       civilTwilightEnd   |-> events.civilTwilightEnd,
                       dayLength          |-> dayLength,
                       nightLength        |-> FSub(Whole(24), dayLength),
                       isAlwaysDay        |-> sun.isAlwaysDay,
                       isAlwaysNight      |-> sun.isAlwaysNight]]
            : dayLength \in {DayLength(sun.isAlwaysDay, sun.isAlwaysNight,
                                       events.sunrise, events.sunset)} })
          : events \in {IF ~sun.isAlwaysDay /\ ~sun.isAlwaysNight
                        THEN SunEvents(solarMidnight.heap, lon, sky, date, solarNoon.ref)
                        ELSE NoSunEvents(solarMidnight.heap)} })
        : sun \in {[isAlwaysDay   |-> FGt(Altitude(sky, lon,
                                                   solarMidnight.heap[solarMidnight.ref]),
                                          SUNRISE_SUNSET_ALTITUDE),
                    isAlwaysNight |-> FLt(Altitude(sky, lon,
                                                   solarMidnight.heap[solarNoon.ref]),
                                          SUNRISE_SUNSET_ALTITUDE)]} })
      : solarMidnight \in {calculateSolarMidnight(solarNoon.heap, lon, eot, date)} })
    : solarNoon \in {calculateSolarNoon(h, lon, eot, date)} })

----------------------------------------------------------------------------
(* Inputs *)

\* an airport on the equator
Airport(lon) == [lat |-> Whole(0), lon |-> lon]

\* the flights submitted: longitudes of origin and destination in degrees, cruising
\* speed in km/h, departure in ms.  Short hops east and west, across the antimeridian
\* both ways, from an airport to itself, and between two places 55 m apart.
Flights ==
  { <<Whole(0),    Whole(2),     DefaultCruisingSpeed, 0>>,
    <<Whole(2),    Whole(0),     700,                  1000>>,
    <<Whole(179),  Whole(-179),  DefaultCruisingSpeed, 1000>>,
    <<Whole(-179), Whole(179),   700,                  0>>,
    <<Whole(2),    Whole(2),     DefaultCruisingSpeed, 1000>>,
    <<Whole(0),    Num(1, 2000), DefaultCruisingSpeed, 0>> }

\* sun positions a point of the flight may be given: at the sunrise/sunset
\* threshold, on the horizon, at 45 degrees in the south and in the north, near the zenith
SunSamples ==
  { SunPosition(Whole(90), SUNRISE_SUNSET_ALTITUDE),
    SunPosition(Whole(180), Whole(0)),
    SunPosition(Whole(180), Whole(45)),
    SunPosition(Whole(0), Whole(45)),
    SunPosition(Whole(0), Whole(80)) }

\* arguments of a direct call of calculateAircraftSunExposure
HeadingSet == {Whole(h) : h \in {0, 90, 180, 330}}

AzimuthSet == {Whole(30 * k) : k \in 0..11}

AltitudeSet == {Whole(a) : a \in {-90, -7, -6, -3, -1, 0, 15, 45, 70, 71, 90}}

NoTimeline ==
  [points |-> <<>>, origin |-> Airport(Whole(0)), destination |-> Airport(Whole(0)),
   totalDistance |-> Whole(0), totalDuration |-> Whole(0), sunEvents |-> <<>>,
   statistics |-> <<>>]

NoExposure ==
  [side |-> "NONE", relativeBearing |-> Whole(0), sunAngle |-> Whole(0), rule |-> "none"]

\* no direct call of a solar function
NoCall == [call |-> "none"]

NoResult == <<>>

NoAnalysis ==
  [leftSideMinutes |-> Whole(0), rightSideMinutes |-> Whole(0),
   overheadMinutes |-> Whole(0), noSunMinutes |-> Whole(0), recommendation |-> ""]

----------------------------------------------------------------------------
(* The flight pipeline *)

\* no direct call of calculateAircraftSunExposure is made in the pipeline
InitExposure ==
  /\ heading = Whole(0)
  /\ sunAzimuth = Whole(0)
  /\ sunAltitude = Whole(-90)
  /\ exposure = NoExposure

\* no direct call of a solar function is made in the pipeline
InitSolar ==
  /\ args = NoCall
  /\ result = NoResult

\* useState(0), useState(false), useState(1) of App and useState(false) of
\* TimelineScrubber
InitApp ==
  /\ currentIndex = 0
  /\ isPlaying = FALSE
  /\ playbackSpeed = Whole(1)
  /\ isDragging = FALSE

Init ==
  /\ pc = "start"
  /\ \E f \in Flights :
       /\ origin = Airport(f[1])
       /\ destination = Airport(f[2])
       /\ cruisingSpeed = f[3]
       /\ departureTime = f[4]
  /\ numPoints \in 0..MaxPoints
  /\ waypoints = <<>>
  /\ timeline = NoTimeline
  /\ analysis = NoAnalysis
  /\ InitExposure
  /\ InitSolar
  /\ InitApp

\* a call of generateWaypoints(origin, destination, numPoints)
GenerateWaypoints ==
  /\ pc = "start"
  /\ IF generateWaypointsThrows(numPoints)
     THEN /\ pc' = "threw"
          /\ UNCHANGED waypoints
     ELSE /\ waypoints' = generateWaypoints(origin, destination, numPoints)
          /\ pc' = "waypoints"
  /\ UNCHANGED <<origin, destination, numPoints, cruisingSpeed, departureTime,
                 timeline, analysis, exposureVars, solarVars,
                 appVars>>

\* a call of generateFlightTimeline, which generates the waypoints itself and throws
\* what generateWaypoints throws
GenerateFlightTimeline ==
  /\ pc \in {"start", "waypoints"}
  /\ IF generateWaypointsThrows(numPoints)
     THEN /\ pc' = "threw"
          /\ UNCHANGED <<waypoints, timeline>>
     ELSE /\ waypoints' = generateWaypoints([lat |-> origin.lat, lon |-> origin.lon],
                                            [lat |-> destination.lat,
                                             lon |-> destination.lon],
                                            numPoints)
          /\ \E suns \in [1..(numPoints + 1) -> SunSamples] :
               timeline' = generateFlightTimeline(waypoints', origin, destination,
                                                  departureTime, cruisingSpeed, suns)
          /\ pc' = "timeline"
  /\ UNCHANGED <<origin, destination, numPoints, cruisingSpeed, departureTime,
                 analysis, exposureVars, solarVars,
                 appVars>>

\* a call of analyzeFlightSunExposure(timeline)
AnalyzeFlightSunExposure ==
  /\ pc = "timeline"
  /\ analysis' = analyzeFlightSunExposure(timeline)
  /\ pc' = "analyzed"
  /\ UNCHANGED <<origin, destination, numPoints, cruisingSpeed, departureTime,
                 waypoints, timeline, exposureVars, solarVars,
                 appVars>>

Next ==
  \/ GenerateWaypoints
  \/ GenerateFlightTimeline
  \/ AnalyzeFlightSunExposure

Spec == Init /\ [][Next]_vars

----------------------------------------------------------------------------
(* Direct calls of calculateAircraftSunExposure *)

ExposureInit ==
  /\ pc = "start"
  /\ origin = Airport(Whole(0))
  /\ destination = Airport(Whole(0))
  /\ numPoints = 1
  /\ cruisingSpeed = DefaultCruisingSpeed
  /\ departureTime = 0
  /\ waypoints = <<>>
  /\ timeline = NoTimeline
  /\ analysis = NoAnalysis
  /\ heading \in HeadingSet
  /\ sunAzimuth \in AzimuthSet
  /\ sunAltitude \in AltitudeSet
  /\ exposure = NoExposure
  /\ InitSolar
  /\ InitApp

\* a call of calculateAircraftSunExposure(heading, sunAzimuth, sunAltitude)
CalculateExposure ==
  /\ pc = "start"
  /\ exposure' = calculateAircraftSunExposure(heading, sunAzimuth, sunAltitude)
  /\ pc' = "exposure"
  /\ UNCHANGED <<origin, destination, numPoints, cruisingSpeed, departureTime,
                 waypoints, timeline, analysis, heading, sunAzimuth, sunAltitude,
                 solarVars, appVars>>

ExposureNext == CalculateExposure

ExposureSpec == ExposureInit /\ [][ExposureNext]_vars

----------------------------------------------------------------------------
(* Direct calls of generateWaypoints over long routes *)

\* longitudes of the endpoints, on the equator
RouteLonSet == {Whole(l) : l \in {-179, -90, 0, 1, 90, 179, 180}}

\* the two places are opposite each other on the globe
Antipodal(o, d) == FAbs(WrapDeg(FSub(d.lon, o.lon))) = Whole(180)

\* Between antipodal places sin(delta) is a rounding error and the interior points of
\* the slerp are ill-conditioned; such routes are taken with their endpoints only.
RouteInit ==
  /\ pc = "start"
  /\ origin \in {Airport(l) : l \in RouteLonSet}
  /\ destination \in {Airport(l) : l \in RouteLonSet}
  /\ numPoints \in 0..MaxPoints
  /\ Antipodal(origin, destination) => numPoints <= 1
  /\ cruisingSpeed = DefaultCruisingSpeed
  /\ departureTime = 0
  /\ waypoints = <<>>
  /\ timeline = NoTimeline
  /\ analysis = NoAnalysis
  /\ InitExposure
  /\ InitSolar
  /\ InitApp

RouteNext == GenerateWaypoints

RouteSpec == RouteInit /\ [][RouteNext]_vars

----------------------------------------------------------------------------
(* Direct calls of calculateDaylightInfo and calculateSolarNoon *)

\* no flight is submitted while a solar function is called directly
NoFlight ==
  /\ origin = Airport(Whole(0))
  /\ destination = Airport(Whole(0))
  /\ numPoints = 1
  /\ cruisingSpeed = DefaultCruisingSpeed
  /\ departureTime = 0
  /\ waypoints = <<>>
  /\ timeline = NoTimeline
  /\ analysis = NoAnalysis
  /\ InitExposure
  /\ InitApp

\* longitudes of the observer: the date line from both sides, near it, and in between
LonSet == {Whole(l) : l \in {-180, -177, -90, 0, 90, 180}}

\* the equation of time of the date, in minutes: its extremes over a year and 0
EotSet == {Whole(-14), Whole(0), Whole(16)}

\* the caller's Date: 1970-01-01T00:00:00.000Z and 1970-01-01T15:30:00.500Z
DateSet == {0, 55800500}

\* skies: a 12 hour day, a 2 hour day, a noon that only reaches twilight, the sun up
\* all day, down all day, on the sunrise/sunset threshold all day, and the sun rising
\* at a pole, which crosses the threshold once at 18:00Z
Skies ==
  { [kind |-> "arc", halfDay |-> 6 * MsPerHour, high |-> Whole(30)],
    [kind |-> "arc", halfDay |-> MsPerHour, high |-> Whole(10)],
    [kind |-> "arc", halfDay |-> 0, high |-> Whole(-3)],
    [kind |-> "level", high |-> Whole(10)],
    [kind |-> "level", high |-> Whole(-20)],
    [kind |-> "level", high |-> SUNRISE_SUNSET_ALTITUDE],
    [kind |-> "step", at |-> 18 * MsPerHour, before |-> Num(-17, 20), after |-> Num(-3, 5)] }

DaylightInit ==
  /\ pc = "call"
  /\ NoFlight
  /\ \E call \in {"calculateDaylightInfo", "calculateSolarNoon"},
        lon \in LonSet, eot \in EotSet, date \in DateSet, sky \in Skies :
       args = [call |-> call, lon |-> lon, eot |-> eot, date |-> date, sky |-> sky]
  /\ result = NoResult

\* a call of calculateDaylightInfo(lat, lon, date); the caller's Date is object 1 of
\* the heap
CalculateDaylightInfo ==
  /\ pc = "call"
  /\ args.call = "calculateDaylightInfo"
  /\ \E r \in {calculateDaylightInfo(<<args.date>>, args.lon, args.eot, args.sky, 1)} :
       /\ result' = r.info
       /\ args' = [args EXCEPT !.date = r.heap[1]]
  /\ pc' = "returned"
  /\ UNCHANGED <<origin, destination, numPoints, cruisingSpeed, departureTime,
                 waypoints, timeline, analysis, exposureVars,
                 appVars>>

\* a call of calculateSolarNoon(lat, lon, date)
CalculateSolarNoon ==
  /\ pc = "call"
  /\ args.call = "calculateSolarNoon"
  /\ \E r \in {calculateSolarNoon(<<args.date>>, args.lon, args.eot, 1)} :
       /\ result' = r.heap[r.ref]
       /\ args' = [args EXCEPT !.date = r.heap[1]]
  /\ pc' = "returned"
  /\ UNCHANGED <<origin, destination, numPoints, cruisingSpeed, departureTime,
                 waypoints, timeline, analysis, exposureVars,
                 appVars>>

DaylightNext ==
  \/ CalculateDaylightInfo
  \/ CalculateSolarNoon

DaylightSpec == DaylightInit /\ [][DaylightNext]_vars

----------------------------------------------------------------------------
(* Direct calls of calculateSunPosition *)

\* sinAlt as computed in line 402: sines of tabulated altitudes, and a sum that
\* rounding has carried just above 1, as happens next to the subsolar point
SinAltSet == {Whole(-1), Num(-1, 2), Whole(0), Num(1, 2), Whole(1), Num(1000001, 1000000)}

\* cosAz as computed in line 408: cosines of tabulated azimuths, and quotients that
\* rounding has carried outside [-1, 1]
CosAzSet == {Num(-3, 2), Whole(-1), Num(-1, 2), Whole(0), Num(1, 2), Whole(1), Num(3, 2)}

\* refraction corrections in degrees for altitudes up to 85 degrees
CorrectionSet == {Num(1, 100), Num(29, 60)}

SunInit ==
  /\ pc = "call"
  /\ NoFlight
  /\ \E sinAlt \in SinAltSet, cosAz \in CosAzSet, sinHaPositive \in BOOLEAN,
        correction \in CorrectionSet :
       args = [call |-> "calculateSunPosition", sinAlt |-> sinAlt, cosAz |-> cosAz,
               sinHaPositive |-> sinHaPositive, correction |-> correction]
  /\ result = NoResult

\* a call of calculateSunPosition(lat, lon, date)
CalculateSunPosition ==
  /\ pc = "call"
  /\ args.call = "calculateSunPosition"
  /\ result' = calculateSunPosition(args.sinAlt, args.cosAz, args.sinHaPositive,
                                    args.correction)
  /\ pc' = "returned"
  /\ UNCHANGED <<origin, destination, numPoints, cruisingSpeed, departureTime,
                 waypoints, timeline, analysis, exposureVars, args,
                 appVars>>

SunNext == CalculateSunPosition

SunSpec == SunInit /\ [][SunNext]_vars

----------------------------------------------------------------------------
(* Direct calls of getJulianDay *)

\* Date.UTC(year, month, day, hour, minute, second) / 1000 for the instants below,
\* counted from the days of the years and months before
InstantSet ==
  { 0,            \* 1970-01-01T00:00:00Z
    68255999,     \* 1972-02-29T23:59:59Z
    68256000,     \* 1972-03-01T00:00:00Z
    946684799,    \* 1999-12-31T23:59:59Z
    946684800,    \* 2000-01-01T00:00:00Z
    946728000,    \* 2000-01-01T12:00:00Z
    951782399,    \* 2000-02-28T23:59:59Z
    951782400,    \* 2000-02-29T00:00:00Z
    951868800,    \* 2000-03-01T00:00:00Z
    983404799,    \* 2001-02-28T23:59:59Z
    983404800,    \* 2001-03-01T00:00:00Z
    1009843199,   \* 2001-12-31T23:59:59Z
    1009843200,   \* 2002-01-01T00:00:00Z
    1078012800,   \* 2004-02-29T00:00:00Z
    1088640030 }  \* 2004-07-01T00:00:30Z

JulianInit ==
  /\ pc = "call"
  /\ NoFlight
  /\ \E t1 \in InstantSet, t2 \in InstantSet :
       /\ t1 <= t2
       /\ args = [call |-> "getJulianDay", t1 |-> t1, t2 |-> t2]
  /\ result = NoResult

\* getJulianDay called on each of two Dates
GetJulianDay ==
  /\ pc = "call"
  /\ args.call = "getJulianDay"
  /\ result' = [jd1 |-> getJulianDay(args.t1), jd2 |-> getJulianDay(args.t2)]
  /\ pc' = "returned"
  /\ UNCHANGED <<origin, destination, numPoints, cruisingSpeed, departureTime,
                 waypoints, timeline, analysis, exposureVars, args,
                 appVars>>

JulianNext == GetJulianDay

JulianSpec == JulianInit /\ [][JulianNext]_vars

----------------------------------------------------------------------------
(* The core operations together: the flight pipeline, and direct calls of
   calculateDaylightInfo and calculateSolarNoon *)

CoreInit ==
  \/ Init
  \/ DaylightInit

CoreNext ==
  \/ Next
  \/ DaylightNext

CoreSpec == CoreInit /\ [][CoreNext]_vars

----------------------------------------------------------------------------
(* The loop of findSunEvent, one iteration at a time.  args holds the call's
   direction and targetAltitude, the window it started from, the time values of low
   and high and the loop counter i; the altitude calculateSunPosition returns at mid
   is any of SearchAltitudes. *)

\* altitudes below, on and above the target, and NaN
SearchAltitudes == {Whole(-90), SUNRISE_SUNSET_ALTITUDE, Whole(90), NaN}

\* short windows a search starts from, as <<direction, low, high>>: empty, just under
\* and on the precision, ten minutes, solar noon after the end of the day, and
\* Invalid Dates
ShortWindows ==
  { <<d, Whole(w[1]), Whole(w[2])>> :
      d \in {"rise", "set"},
      w \in {<<0, 0>>, <<0, PRECISION_MS - 1>>, <<0, PRECISION_MS>>,
             <<0, 10 * MsPerMinute>>, <<MsPerDay + MsPerHour, MsPerDay - 1>>} }
  \cup { <<"rise", NaN, NaN>>, <<"set", NaN, NaN>> }

\* the widest windows of a day: a whole day for sunrise (midnight to a solar noon at
\* the next midnight) and a day less a millisecond for sunset (a solar noon at
\* midnight to 23:59:59.999)
DayWindows ==
  { <<"rise", Whole(0), Whole(MsPerDay)>>,
    <<"set", Whole(0), Whole(MsPerDay - 1)>> }

SearchInitFrom(windows) ==
  /\ pc = "search"
  /\ NoFlight
  /\ \E w \in windows :
       args = [call |-> "findSunEvent", direction |-> w[1],
               targetAltitude |-> SUNRISE_SUNSET_ALTITUDE,
               from |-> <<w[2], w[3]>>, low |-> w[2], high |-> w[3], i |-> 0]
  /\ result = NoResult

SearchInit == SearchInitFrom(ShortWindows \cup DayWindows)

ShortSearchInit == SearchInitFrom(ShortWindows)

\* one pass through the loop body that does not break
SearchIteration ==
  /\ pc = "search"
  /\ args.i < MAX_ITERATIONS
  /\ ~WindowClosed(args.low, args.high)
  /\ \E altitude \in SearchAltitudes, mid \in {SearchMid(args.low, args.high)} :
       args' = IF SearchLower(args.direction, altitude, args.targetAltitude)
               THEN [args EXCEPT !.low = mid, !.i = @ + 1]
               ELSE [args EXCEPT !.high = mid, !.i = @ + 1]
  /\ UNCHANGED <<pc, result, origin, destination, numPoints, cruisingSpeed,
                 departureTime, waypoints, timeline, analysis, exposureVars,
                 appVars>>

\* the loop ends, by its condition or by break, and high is returned
SearchReturn ==
  /\ pc = "search"
  /\ args.i >= MAX_ITERATIONS \/ WindowClosed(args.low, args.high)
  /\ result' = args.high
  /\ pc' = "returned"
  /\ UNCHANGED <<args, origin, destination, numPoints, cruisingSpeed, departureTime,
                 waypoints, timeline, analysis, exposureVars,
                 appVars>>

SearchNext ==
  \/ SearchIteration
  \/ SearchReturn

SearchSpec == SearchInit /\ [][SearchNext]_vars

\* the loop is never suspended: a step that can be taken is taken
SearchFairSpec == ShortSearchInit /\ [][SearchNext]_vars /\ WF_vars(SearchNext)

----------------------------------------------------------------------------
(* App.tsx and components/TimelineScrubber.tsx: the input screen and the playback
   of a timeline.  pc is "input" while timeline is null and "display" while the
   scrubber is mounted.  App calls generateFlightTimeline without options; numPoints
   stands for the default number of segments.  React runs the playback effect again
   after every render in which currentIndex, isPlaying or playbackSpeed changed, so
   the interval callback that fires reads the values of the latest render. *)

\* the flights submitted on the input screen, as for Flights
AppFlights ==
  { <<Whole(0),   Whole(2),    0>>,
    <<Whole(179), Whole(-179), 1000>> }

\* the sun over the flight: up at every point, or up until the last point
AppSuns(n) ==
  { [k \in 1..(n + 1) |-> SunPosition(Whole(180), Whole(45))],
    [k \in 1..(n + 1) |-> IF k <= n THEN SunPosition(Whole(180), Whole(45))
                          ELSE SunPosition(Whole(90), SUNRISE_SUNSET_ALTITUDE)] }

\* setPlaybackSpeed is called with 0.5, 1 or 2
SpeedSet == {Num(1, 2), Whole(1), Whole(2)}

\* clickX / rect.width of a mouse event on the progress bar, and positions just off
\* its two ends
PercentageSet == {Num(-1, 10), Whole(0), Num(1, 3), Num(1, 2), Num(99, 100), Whole(1),
                  Num(11, 10)}

\* the timeline handleFlightSubmit builds for a flight
AppTimeline(f, suns) ==
  generateFlightTimeline(generateWaypoints(Airport(f[1]), Airport(f[2]), numPoints),
                         Airport(f[1]), Airport(f[2]), f[3], DefaultCruisingSpeed,
                         suns)

\* timeline.points.length - 1
LastIndex == Len(timeline.points) - 1

AppInit ==
  /\ pc = "input"
  /\ origin = Airport(Whole(0))
  /\ destination = Airport(Whole(0))
  /\ numPoints \in 1..MaxPoints
  /\ cruisingSpeed = DefaultCruisingSpeed
  /\ departureTime = 0
  /\ waypoints = <<>>
  /\ timeline = NoTimeline
  /\ analysis = NoAnalysis
  /\ InitExposure
  /\ InitSolar
  /\ InitApp

\* handleFlightSubmit(data), called by FlightInput, which is shown while timeline is
\* null; TimelineScrubber is mounted with isDragging false
HandleFlightSubmit ==
  /\ pc = "input"
  /\ \E f \in AppFlights, suns \in AppSuns(numPoints) :
       /\ origin' = Airport(f[1])
       /\ destination' = Airport(f[2])
       /\ departureTime' = f[3]
       /\ timeline' = AppTimeline(f, suns)
  /\ currentIndex' = 0
  /\ isPlaying' = FALSE
  /\ isDragging' = FALSE
  /\ pc' = "display"
  /\ UNCHANGED <<numPoints, cruisingSpeed, waypoints, analysis, playbackSpeed,
                 exposureVars, solarVars>>

\* PlaybackTick that starts again from the first point after the last
PlaybackTick_Looping(index, playing, last) ==
  IF index < last THEN [currentIndex |-> index + 1, isPlaying |-> playing]
  ELSE [currentIndex |-> 0, isPlaying |-> playing]

\* the interval callback: onIndexChange(currentIndex + 1) below the last index,
\* onPlayPause(), which is setIsPlaying(!isPlaying), at it
PlaybackTick(index, playing, last) ==
  IF index < last THEN [currentIndex |-> index + 1, isPlaying |-> playing]
  ELSE [currentIndex |-> index, isPlaying |-> ~playing]

\* the interval set by the playback effect fires
Tick ==
  /\ pc = "display"
  /\ isPlaying
  /\ \E after \in {PlaybackTick(currentIndex, isPlaying, LastIndex)} :
       /\ currentIndex' = after.currentIndex
       /\ isPlaying' = after.isPlaying
  /\ UNCHANGED <<pc, origin, destination, numPoints, cruisingSpeed, departureTime,
                 waypoints, timeline, analysis, playbackSpeed, isDragging,
                 exposureVars, solarVars>>

\* handlePlayPause, from the play / pause button
HandlePlayPause ==
  /\ pc = "display"
  /\ isPlaying' = ~isPlaying
  /\ UNCHANGED <<pc, origin, destination, numPoints, cruisingSpeed, departureTime,
                 waypoints, timeline, analysis, currentIndex, playbackSpeed,
                 isDragging, exposureVars, solarVars>>

\* the two skip buttons: onIndexChange(0) and onIndexChange(points.length - 1)
SkipToStart ==
  /\ pc = "display"
  /\ currentIndex' = 0
  /\ UNCHANGED <<pc, origin, destination, numPoints, cruisingSpeed, departureTime,
                 waypoints, timeline, analysis, isPlaying, playbackSpeed, isDragging,
                 exposureVars, solarVars>>

SkipToEnd ==
  /\ pc = "display"
  /\ currentIndex' = LastIndex
  /\ UNCHANGED <<pc, origin, destination, numPoints, cruisingSpeed, departureTime,
                 waypoints, timeline, analysis, isPlaying, playbackSpeed, isDragging,
                 exposureVars, solarVars>>

\* a speed button: onSpeedChange(speed)
OnSpeedChange ==
  /\ pc = "display"
  /\ playbackSpeed' \in SpeedSet
  /\ UNCHANGED <<pc, origin, destination, numPoints, cruisingSpeed, departureTime,
                 waypoints, timeline, analysis, currentIndex, isPlaying, isDragging,
                 exposureVars, solarVars>>

\* ClampIndex that passes the index on as it is
ClampIndex_None(newIndex, last) == newIndex

\* Math.max(0, Math.min(timeline.points.length - 1, newIndex))
ClampIndex(newIndex, last) == MathMax(Whole(0), MathMin(Whole(last), Whole(newIndex)))[1]

\* the index handleProgressClick passes to onIndexChange
ProgressIndex(percentage, last) ==
  ClampIndex(Floor(FMul(percentage, Whole(last))), last)

\* handleProgressClick, from a click on the progress bar
HandleProgressClick ==
  /\ pc = "display"
  /\ \E percentage \in PercentageSet :
       currentIndex' = ProgressIndex(percentage, LastIndex)
  /\ UNCHANGED <<pc, origin, destination, numPoints, cruisingSpeed, departureTime,
                 waypoints, timeline, analysis, isPlaying, playbackSpeed, isDragging,
                 exposureVars, solarVars>>

\* handleProgressMouseDown: setIsDragging(true) and handleProgressClick
HandleProgressMouseDown ==
  /\ pc = "display"
  /\ isDragging' = TRUE
  /\ \E percentage \in PercentageSet :
       currentIndex' = ProgressIndex(percentage, LastIndex)
  /\ UNCHANGED <<pc, origin, destination, numPoints, cruisingSpeed, departureTime,
                 waypoints, timeline, analysis, isPlaying, playbackSpeed,
                 exposureVars, solarVars>>

\* handleProgressMouseMove: handleProgressClick while dragging, nothing otherwise
HandleProgressMouseMove ==
  /\ pc = "display"
  /\ isDragging
  /\ \E percentage \in PercentageSet :
       currentIndex' = ProgressIndex(percentage, LastIndex)
  /\ UNCHANGED <<pc, origin, destination, numPoints, cruisingSpeed, departureTime,
                 waypoints, timeline, analysis, isPlaying, playbackSpeed, isDragging,
                 exposureVars, solarVars>>

\* handleProgressMouseUp, on mouseup and on mouseleave
HandleProgressMouseUp ==
  /\ pc = "display"
  /\ isDragging' = FALSE
  /\ UNCHANGED <<pc, origin, destination, numPoints, cruisingSpeed, departureTime,
                 waypoints, timeline, analysis, currentIndex, isPlaying, playbackSpeed,
                 exposureVars, solarVars>>

\* resetView, from the "New Flight" button; TimelineScrubber is unmounted and its
\* state is dropped
ResetView ==
  /\ pc = "display"
  /\ origin' = Airport(Whole(0))
  /\ destination' = Airport(Whole(0))
  /\ departureTime' = 0
  /\ timeline' = NoTimeline
  /\ currentIndex' = 0
  /\ isPlaying' = FALSE
  /\ isDragging' = FALSE
  /\ pc' = "input"
  /\ UNCHANGED <<numPoints, cruisingSpeed, waypoints, analysis, playbackSpeed,
                 exposureVars, solarVars>>

AppNext ==
  \/ HandleFlightSubmit
  \/ Tick
  \/ HandlePlayPause
  \/ SkipToStart
  \/ SkipToEnd
  \/ OnSpeedChange
  \/ HandleProgressClick
  \/ HandleProgressMouseDown
  \/ HandleProgressMouseMove
  \/ HandleProgressMouseUp
  \/ ResetView

AppSpec == AppInit /\ [][AppNext]_vars

\* playback left to itself: a timeline is displayed at any of its points, playback is
\* on at any speed, and only the interval fires
PlaybackInit ==
  /\ pc = "display"
  /\ numPoints \in 1..MaxPoints
  /\ \E f \in AppFlights, suns \in AppSuns(numPoints) :
       /\ origin = Airport(f[1])
       /\ destination = Airport(f[2])
       /\ departureTime = f[3]
       /\ timeline = AppTimeline(f, suns)
  /\ cruisingSpeed = DefaultCruisingSpeed
  /\ waypoints = <<>>
  /\ analysis = NoAnalysis
  /\ InitExposure
  /\ InitSolar
  /\ currentIndex \in 0..numPoints
  /\ isPlaying = TRUE
  /\ playbackSpeed \in SpeedSet
  /\ isDragging = FALSE

PlaybackNext == Tick

\* setInterval keeps firing while the interval is set
PlaybackSpec == PlaybackInit /\ [][PlaybackNext]_vars /\ WF_vars(Tick)

----------------------------------------------------------------------------
(* components/FlightInput.tsx: handleSubmit.  Instants are whole minutes since
   1970-01-01T00:00Z, the seconds passed to Date.UTC being 0. *)

TIMEZONES ==
  {
    [value |-> "UTC", offset |-> Whole(0)],
    [value |-> "America/New_York", offset |-> Whole(-5)],
    [value |-> "America/Chicago", offset |-> Whole(-6)],
    [value |-> "America/Denver", offset |-> Whole(-7)],
    [value |-> "America/Los_Angeles", offset |-> Whole(-8)],
    [value |-> "America/Anchorage", offset |-> Whole(-9)],
    [value |-> "America/Toronto", offset |-> Whole(-5)],
    [value |-> "America/Mexico_City", offset |-> Whole(-6)],
    [value |-> "America/Sao_Paulo", offset |-> Whole(-3)],
    [value |-> "America/Buenos_Aires", offset |-> Whole(-3)],
    [value |-> "Europe/London", offset |-> Whole(0)],
    [value |-> "Europe/Paris", offset |-> Whole(1)],
    [value |-> "Europe/Berlin", offset |-> Whole(1)],
    [value |-> "Europe/Rome", offset |-> Whole(1)],
    [value |-> "Europe/Madrid", offset |-> Whole(1)],
    [value |-> "Europe/Moscow", offset |-> Whole(3)],
    [value |-> "Europe/Istanbul", offset |-> Whole(3)],
    [value |-> "Africa/Cairo", offset |-> Whole(2)],
    [value |-> "Africa/Johannesburg", offset |-> Whole(2)],
    [value |-> "Africa/Lagos", offset |-> Whole(1)],
    [value |-> "Asia/Dubai", offset |-> Whole(4)],
    [value |-> "Asia/Riyadh", offset |-> Whole(3)],
    [value |-> "Asia/Tehran", offset |-> Num(7, 2)],
    [value |-> "Asia/Kolkata", offset |-> Num(11, 2)],
    [value |-> "Asia/Karachi", offset |-> Whole(5)],
    [value |-> "Asia/Dhaka", offset |-> Whole(6)],
    [value |-> "Asia/Bangkok", offset |-> Whole(7)],
    [value |-> "Asia/Singapore", offset |-> Whole(8)],
    [value |-> "Asia/Hong_Kong", offset |-> Whole(8)],
    [value |-> "Asia/Shanghai", offset |-> Whole(8)],
    [value |-> "Asia/Tokyo", offset |-> Whole(9)],
    [value |-> "Asia/Seoul", offset |-> Whole(9)],
    [value |-> "Australia/Perth", offset |-> Whole(8)],
    [value |-> "Australia/Sydney", offset |-> Whole(10)],
    [value |-> "Australia/Melbourne", offset |-> Whole(10)],
    [value |-> "Pacific/Auckland", offset |-> Whole(12)],
    [value |-> "Pacific/Honolulu", offset |-> Whole(-10)],
    [value |-> "Pacific/Fiji", offset |-> Whole(12)] }

\* the day number of year-month-day, month 1 for January, counted from 1970-01-01
DayFromCivil(year, month, day) ==
  LET y   == IF month <= 2 THEN year - 1 ELSE year
      era == y \div 400
      yoe == y - era * 400
      mp  == IF month > 2 THEN month - 3 ELSE month + 9
      doy == (153 * mp + 2) \div 5 + day - 1
      doe == yoe * 365 + yoe \div 4 - yoe \div 100 + doy
  IN  era * 146097 + doe - 719468

\* MakeDay(year, month, date) of the Date constructors: month is 0 for January and is
\* carried into the year, date is counted on from the first of the month
MakeDay(year, monthIndex, date) ==
  DayFromCivil(year + (monthIndex \div 12), (monthIndex % 12) + 1, 1) + date - 1

\* Date.UTC(year, monthIndex, day, hours, minutes, 0), in minutes
DateUTC(year, monthIndex, day, hours, minutes) ==
  MakeDay(year, monthIndex, day) * 1440 + hours * 60 + minutes

\* LastDayOfMonth taken as 30 for every month
LastDayOfMonth_Thirty(year, monthIndex) == 30

\* new Date(year, monthIndex, 0).getDate(): the day of the month of the day before the
\* first of month monthIndex (0 for January).  The local time zone of the browser
\* does not change which day that is.
LastDayOfMonth(year, monthIndex) == getUTCDate(MakeDay(year, monthIndex, 0) * 86400)

\* the hour and date fields after the hour overflow / underflow branch
RollHours(f) ==
  IF f.utcHours < 0
  THEN LET back == [f EXCEPT !.utcHours = @ + 24, !.utcDay = @ - 1]
       IN  IF back.utcDay < 1
           THEN LET month == IF back.utcMonth - 1 < 1 THEN 12 ELSE back.utcMonth - 1
                    year  == IF back.utcMonth - 1 < 1 THEN back.utcYear - 1
                             ELSE back.utcYear
                IN  [back EXCEPT !.utcMonth = month, !.utcYear = year,
                                 !.utcDay = LastDayOfMonth(year, month)]
           ELSE back
  ELSE IF f.utcHours >= 24
  THEN LET on == [f EXCEPT !.utcHours = @ - 24, !.utcDay = @ + 1]
       IN  IF on.utcDay > LastDayOfMonth(on.utcYear, on.utcMonth)
           THEN [on EXCEPT !.utcDay = 1,
                           !.utcMonth = IF @ + 1 > 12 THEN 1 ELSE @ + 1,
                           !.utcYear = IF on.utcMonth + 1 > 12 THEN @ + 1 ELSE @]
           ELSE on
  ELSE f

\* the minute and hour fields after the minute overflow / underflow branch
RollMinutes(f) ==
  IF f.utcMinutes < 0
  THEN [f EXCEPT !.utcMinutes = @ + 60, !.utcHours = @ - 1]
  ELSE IF f.utcMinutes >= 60
  THEN [f EXCEPT !.utcMinutes = @ - 60, !.utcHours = @ + 1]
  ELSE f

\* departureDate of handleSubmit for date = <<year, month, day>>, time = <<hours,
\* minutes>> and the selected entry of TIMEZONES
DepartureDate(date, time, tz) ==
  IF tz.value = "UTC"
  THEN DateUTC(date[1], date[2] - 1, date[3], time[1], time[2])
  ELSE LET offsetMinutes  == Floor(FMul(Mod1(tz.offset), Whole(60)))
           offsetHoursInt == Floor(tz.offset)
           f == RollHours(RollMinutes([utcHours   |-> time[1] - offsetHoursInt,
                                       utcMinutes |-> time[2] - offsetMinutes,
                                       utcDay     |-> date[3],
                                       utcMonth   |-> date[2],
                                       utcYear    |-> date[1]]))
       IN  DateUTC(f.utcYear, f.utcMonth - 1, f.utcDay, f.utcHours, f.utcMinutes)

\* dates entered: around a year end, a leap day, the same days of a common year, the
\* ends of a 30 and a 31 day month, and a day in mid month
SubmitDates ==
  { <<2023, 12, 31>>, <<2024, 1, 1>>, <<2024, 2, 28>>, <<2024, 2, 29>>, <<2024, 3, 1>>,
    <<2023, 2, 28>>, <<2023, 3, 1>>, <<2024, 4, 30>>, <<2024, 5, 1>>, <<2024, 7, 31>>,
    <<2024, 8, 1>>, <<2024, 6, 15>> }

\* times entered
SubmitTimes == { <<0, 0>>, <<0, 15>>, <<5, 29>>, <<8, 0>>, <<12, 30>>, <<23, 45>> }

SubmitInit ==
  /\ pc = "call"
  /\ NoFlight
  /\ \E date \in SubmitDates, time \in SubmitTimes, tz \in TIMEZONES :
       args = [call |-> "handleSubmit", date |-> date, time |-> time, timezone |-> tz]
  /\ result = NoResult

\* handleSubmit with both airports chosen: onSubmit is called with departureDate
HandleSubmit ==
  /\ pc = "call"
  /\ args.call = "handleSubmit"
  /\ result' = [departureDate |-> DepartureDate(args.date, args.time, args.timezone)]
  /\ pc' = "returned"
  /\ UNCHANGED <<origin, destination, numPoints, cruisingSpeed, departureTime,
                 waypoints, timeline, analysis, exposureVars, args, appVars>>

SubmitNext == HandleSubmit

SubmitSpec == SubmitInit /\ [][SubmitNext]_vars

----------------------------------------------------------------------------
(* Properties *)

HasWaypoints == pc \in {"waypoints", "timeline", "analyzed"}

HasTimeline == pc \in {"timeline", "analyzed"}

\* the same place on the sphere: equal latitude, longitude equal up to whole turns
SamePlace(a, b) == a.lat = b.lat /\ WrapDeg(a.lon) = WrapDeg(b.lon)

\* a route with the default number of points
DefaultWaypoints ==
  generateWaypoints(Airport(Whole(0)), Airport(Whole(2)), DefaultNumPoints)

\* C1: once a timeline with at least one point is analysed, the four minute totals
\* of the analysis add up to the timeline's totalDuration.
C1_MinutesSumToDuration ==
  (pc = "analyzed" /\ Len(timeline.points) >= 1) =>
    FEq(FAdd(FAdd(FAdd(analysis.leftSideMinutes, analysis.rightSideMinutes),
                  analysis.overheadMinutes), analysis.noSunMinutes),
        timeline.totalDuration)

\* an analysed flight in which each of the four sides was charged a slice
C1_Witness ==
  /\ pc = "analyzed"
  /\ FGt(analysis.leftSideMinutes, Whole(0))
  /\ FGt(analysis.rightSideMinutes, Whole(0))
  /\ FGt(analysis.overheadMinutes, Whole(0))
  /\ FGt(analysis.noSunMinutes, Whole(0))

SliceAtLeastOneMs ==
  FGe(FMul(FDiv(timeline.totalDuration, Whole(Len(timeline.points) - 1)), Whole(60000)),
      Whole(1))

C3_BearingHalfOpen ==
  pc = "exposure" =>
    /\ FGt(exposure.relativeBearing, Whole(-180))
    /\ FLe(exposure.relativeBearing, Whole(180))

\* C3 amended: for heading and azimuth in [0, 360) the relativeBearing returned lies
\* in the closed range [-180, 180], differs from sunAzimuth - heading by 0 or +-360,
\* and is -180 exactly when sunAzimuth - heading = -180.
C3_BearingClosedRange ==
  pc = "exposure" =>
    LET diff == FSub(sunAzimuth, heading)
        rb   == exposure.relativeBearing
    IN  /\ FGe(rb, Whole(-180))
        /\ FLe(rb, Whole(180))
        /\ FSub(rb, diff) \in {Whole(0), Whole(360), Whole(-360)}
        /\ (rb = Whole(-180)) <=> (diff = Whole(-180))

\* a call that returns -180: the sun dead astern of a southbound aircraft
C3_Witness ==
  /\ pc = "exposure"
  /\ heading = Whole(180)
  /\ sunAzimuth = Whole(0)
  /\ exposure.relativeBearing = Whole(-180)

\* the side C4 names for a relative bearing and a sun altitude
C4_Side(rb, alt) ==
  IF FLt(alt, Whole(0)) THEN "NONE"
  ELSE IF FGt(alt, Whole(70)) THEN "OVERHEAD"
  ELSE IF FLe(FAbs(rb), Whole(30)) THEN "NONE"
  ELSE IF FGe(FAbs(rb), Whole(150)) THEN "NONE"
  ELSE IF FGt(rb, Whole(0)) THEN "RIGHT"
  ELSE "LEFT"

\* C4: the side returned is that of the first matching rule in the order: altitude < 0
\* NONE (night below -6, twilight from -6 up to 0), altitude > 70 OVERHEAD,
\* |relativeBearing| <= 30 NONE, |relativeBearing| >= 150 NONE, relativeBearing > 0
\* RIGHT, otherwise LEFT; heading 90, azimuth 180, altitude 45 gives 90 and RIGHT.
C4_SideByFirstMatchingRule ==
  pc = "exposure" =>
    /\ exposure.side = C4_Side(exposure.relativeBearing, sunAltitude)
    /\ (exposure.rule = "night") <=> FLt(sunAltitude, Whole(-6))
    /\ (exposure.rule = "twilight") <=>
         (FGe(sunAltitude, Whole(-6)) /\ FLt(sunAltitude, Whole(0)))
    /\ (exposure.rule = "overhead") <=> FGt(sunAltitude, Whole(70))
    /\ (heading = Whole(90) /\ sunAzimuth = Whole(180) /\ sunAltitude = Whole(45)) =>
         (exposure.relativeBearing = Whole(90) /\ exposure.side = "RIGHT")

\* the call of the example: heading 90, azimuth 180, altitude 45
C4_Witness ==
  /\ pc = "exposure"
  /\ heading = Whole(90)
  /\ sunAzimuth = Whole(180)
  /\ sunAltitude = Whole(45)
  /\ exposure.side = "RIGHT"

\* the timeline has one point per waypoint, in the same order
OnePointPerWaypoint ==
  /\ Len(timeline.points) = Len(waypoints)
  /\ \A k \in 1..Len(waypoints) :
       /\ timeline.points[k].lat = waypoints[k].lat
       /\ timeline.points[k].lon = waypoints[k].lon
       /\ timeline.points[k].distance = waypoints[k].distance
       /\ timeline.points[k].heading = waypoints[k].bearing

\* C5 as stated: generateWaypoints returns numPoints + 1 waypoints, the first at the
\* origin and the last at the destination, and the timeline has one point per waypoint
\* in the same order (151 by default).
C5_EndpointsAndCount ==
  /\ Len(DefaultWaypoints) = 151
  /\ HasWaypoints =>
       /\ Len(waypoints) = numPoints + 1
       /\ SamePlace(waypoints[1], origin)
       /\ SamePlace(waypoints[Len(waypoints)], destination)
  /\ HasTimeline => OnePointPerWaypoint

\* origin and destination are less than 0.00001 rad apart
OriginNearDestination ==
  ZeroDistance(FDiv(calculateDistance(origin.lat, origin.lon,
                                      destination.lat, destination.lon),
                    Whole(EARTH_RADIUS_KM)))

\* C5 amended: generateWaypoints returns numPoints + 1 waypoints, the first at the
\* origin; the last is at the destination (its longitude up to a whole turn) unless
\* origin and destination are less than 0.00001 rad (about 64 m) apart, and then it is
\* at the origin; the timeline has one point per waypoint in the same order (151 by
\* default).
C5_EndpointsUnlessTooClose ==
  /\ Len(DefaultWaypoints) = 151
  /\ HasWaypoints =>
       /\ Len(waypoints) = numPoints + 1
       /\ SamePlace(waypoints[1], origin)
       /\ IF OriginNearDestination
          THEN SamePlace(waypoints[Len(waypoints)], origin)
          ELSE SamePlace(waypoints[Len(waypoints)], destination)
  /\ HasTimeline => OnePointPerWaypoint

\* a timeline over the antimeridian: four points, the last at the destination with
\* its longitude a whole turn off
C5_Witness ==
  /\ HasTimeline
  /\ Len(timeline.points) = 4
  /\ origin.lon = Whole(179)
  /\ waypoints[4].lon = Whole(181)
  /\ destination.lon = Whole(-179)

\* C6: waypoint 0 has distance 0, the last waypoint has the haversine distance from
\* origin to destination, and distance never decreases with the index.
C6_DistanceFromZeroToTotal ==
  HasWaypoints =>
    /\ waypoints[1].distance = Whole(0)
    /\ FEq(waypoints[Len(waypoints)].distance,
           calculateDistance(origin.lat, origin.lon, destination.lat, destination.lon))
    /\ \A k \in 2..Len(waypoints) :
         FGe(waypoints[k].distance, waypoints[k - 1].distance)

\* four waypoints over a real distance
C6_Witness ==
  /\ pc = "waypoints"
  /\ Len(waypoints) = 4
  /\ FGt(waypoints[4].distance, waypoints[2].distance)

\* C7 as stated: each waypoint's distance is strictly greater than that of the
\* waypoint before it.
C7_DistanceStrictlyIncreases ==
  HasWaypoints =>
    \A k \in 2..Len(waypoints) :
      FGt(waypoints[k].distance, waypoints[k - 1].distance)

\* C7 amended: each waypoint's distance is strictly greater than that of the waypoint
\* before it when the haversine distance from origin to destination is positive; when
\* it is 0 (origin and destination the same place) every distance is 0.
C7_DistanceIncreasesUnlessZeroLength ==
  HasWaypoints =>
    \A k \in 2..Len(waypoints) :
      IF FGt(calculateDistance(origin.lat, origin.lon,
                               destination.lat, destination.lon), Whole(0))
      THEN FGt(waypoints[k].distance, waypoints[k - 1].distance)
      ELSE waypoints[k].distance = Whole(0)

\* waypoints between two places 55 m apart: distinct distances, one position
C7_Witness ==
  /\ HasWaypoints
  /\ Len(waypoints) = 4
  /\ ~SamePlace(origin, destination)
  /\ OriginNearDestination
  /\ FLt(waypoints[3].distance, waypoints[4].distance)

\* the duration, the elapsed minutes and the first and last point as C8 states them
C8_DurationAndElapsed ==
  LET n == Len(timeline.points) - 1
  IN  /\ FEq(FMul(timeline.totalDuration, Whole(cruisingSpeed)),
             FMul(timeline.totalDistance, Whole(60)))
      /\ \A k \in 1..(n + 1) :
           FEq(FMul(timeline.points[k].elapsedMinutes, Whole(n)),
               FMul(timeline.totalDuration, Whole(k - 1)))
      /\ timeline.points[1].elapsedMinutes = Whole(0)
      /\ timeline.points[1].timestamp = departureTime
      /\ timeline.points[n + 1].elapsedMinutes = timeline.totalDuration

\* the exact instant departureTime + elapsedMinutes of point k, in milliseconds
C8_Instant(k) ==
  FAdd(Whole(departureTime), FMul(timeline.points[k].elapsedMinutes, Whole(60000)))

C9_EventsAt(i) ==
  {j \in 1..Len(timeline.sunEvents) : timeline.sunEvents[j].pointIndex = i}

\* C9: isDaylight is true exactly when the sun altitude is strictly above -0.833, and
\* there is an event at index i >= 1 exactly when isDaylight differs between points
\* i-1 and i: a sunrise for false-to-true, a sunset for true-to-false, with the
\* timestamp, lat, lon and pointIndex of point i.
C9_EventsAreDaylightChanges ==
  HasTimeline =>
    LET points == timeline.points
    IN  /\ \A k \in 1..Len(points) :
             points[k].isDaylight <=> FGt(points[k].sunAltitude, Num(-833, 1000))
        /\ \A j \in 1..Len(timeline.sunEvents) :
             timeline.sunEvents[j].pointIndex \in 1..(Len(points) - 1)
        /\ \A i \in 1..(Len(points) - 1) :
             LET prev == points[i]          \* point i-1, 0-based
                 curr == points[i + 1]      \* point i, 0-based
             IN  IF prev.isDaylight = curr.isDaylight
                 THEN C9_EventsAt(i) = {}
                 ELSE /\ Cardinality(C9_EventsAt(i)) = 1
                      /\ \A j \in C9_EventsAt(i) :
                           LET e == timeline.sunEvents[j]
                           IN  /\ e.type = (IF curr.isDaylight THEN "sunrise" ELSE "sunset")
                               /\ e.timestamp = curr.timestamp
                               /\ e.lat = curr.lat
                               /\ e.lon = curr.lon

\* a flight with a sunset and then a sunrise, at different instants and places
C9_Witness ==
  /\ HasTimeline
  /\ Len(timeline.sunEvents) = 2
  /\ timeline.sunEvents[1].type = "sunset"
  /\ timeline.sunEvents[2].type = "sunrise"
  /\ timeline.sunEvents[2].timestamp > timeline.sunEvents[1].timestamp
  /\ timeline.sunEvents[2].lon # timeline.sunEvents[1].lon

\* C10: daylightMinutes = (points with isDaylight) / (points) * totalDuration,
\* darknessMinutes = totalDuration - daylightMinutes, and the two add up to the
\* timeline's totalDuration.
C10_DaylightAndDarknessMinutes ==
  HasTimeline =>
    LET points == timeline.points
        lit    == Cardinality({k \in 1..Len(points) : points[k].isDaylight})
        stats  == timeline.statistics
    IN  /\ FEq(FMul(stats.daylightMinutes, Whole(Len(points))),
               FMul(timeline.totalDuration, Whole(lit)))
        /\ FEq(stats.darknessMinutes,
               FSub(timeline.totalDuration, stats.daylightMinutes))
        /\ FEq(FAdd(stats.daylightMinutes, stats.darknessMinutes),
               timeline.totalDuration)

\* a flight partly in daylight and partly in darkness
C10_Witness ==
  /\ HasTimeline
  /\ FGt(timeline.statistics.daylightMinutes, Whole(0))
  /\ FGt(timeline.statistics.darknessMinutes, Whole(0))

\* C11 as stated: in every timeline statistics.daylightPercentage is a number from 0
\* to 100 inclusive and equals daylightMinutes / totalDuration * 100.
C11_PercentageBetween0And100 ==
  HasTimeline =>
    LET stats == timeline.statistics
    IN  /\ FGe(stats.daylightPercentage, Whole(0))
        /\ FLe(stats.daylightPercentage, Whole(100))
        /\ FEq(stats.daylightPercentage,
               FMul(FDiv(stats.daylightMinutes, timeline.totalDuration), Whole(100)))

\* a direct call of calculateDaylightInfo has returned
DaylightInfoReturned == pc = "returned" /\ args.call = "calculateDaylightInfo"

\* C12 as stated: if isAlwaysDay then dayLength = 24, nightLength = 0 and sunrise and
\* sunset are null; if isAlwaysNight then dayLength = 0, nightLength = 24 and sunrise
\* and sunset are null.
C12_PolarDayAndNight ==
  DaylightInfoReturned =>
    /\ result.isAlwaysDay =>
         /\ result.dayLength = Whole(24)
         /\ result.nightLength = Whole(0)
         /\ result.sunrise = Null
         /\ result.sunset = Null
    /\ result.isAlwaysNight =>
         /\ result.dayLength = Whole(0)
         /\ result.nightLength = Whole(24)
         /\ result.sunrise = Null
         /\ result.sunset = Null

\* C13 as stated: whenever calculateDaylightInfo returns a sunrise and a sunset (any
\* longitude in [-180, 180], any date), sunrise is strictly earlier than sunset,
\* sunrise is not after solarNoon and sunset is not before solarNoon.
C13_SunriseNoonSunsetInOrder ==
  (DaylightInfoReturned /\ result.sunrise # Null /\ result.sunset # Null) =>
    /\ result.sunrise[1] < result.sunset[1]
    /\ result.sunrise[1] <= result.solarNoon
    /\ result.sunset[1] >= result.solarNoon

\* the longitude step from waypoint k - 1 to waypoint k (1-based)
LonStep(k) == FSub(waypoints[k].lon, waypoints[k - 1].lon)

\* C14 as stated: after the antimeridian correction the longitudes of every two
\* consecutive waypoints differ by less than 180 degrees in absolute value.
C14_StepsBelow180 ==
  HasWaypoints =>
    \A k \in 2..Len(waypoints) : FLt(FAbs(LonStep(k)), Whole(180))

\* C14 amended: after the antimeridian correction the longitudes of every two
\* consecutive waypoints differ by at most 180 degrees in absolute value, a step of
\* exactly 180 being left as it is, and each corrected longitude is the interpolated
\* one or a whole turn away from it.
C14_StepsAtMost180 ==
  HasWaypoints =>
    \A k \in 2..Len(waypoints) :
      /\ FLe(FAbs(LonStep(k)), Whole(180))
      /\ LET raw == intermediatePoint(origin, destination,
                                      WaypointFraction(k - 1, numPoints))
         IN  FSub(waypoints[k].lon, raw.lon) \in {Whole(0), Whole(360), Whole(-360)}

\* a route over the antimeridian whose later waypoints were moved by a whole turn
C14_Witness ==
  /\ pc = "waypoints"
  /\ Len(waypoints) = 4
  /\ origin.lon = Whole(179)
  /\ destination.lon = Whole(-90)
  /\ FGt(waypoints[4].lon, Whole(180))
  /\ FGt(waypoints[3].lon, Whole(180))

\* a coordinate or bearing of waypoint w is NaN
HasNaN(w) == IsNaN(w.lat) \/ IsNaN(w.lon) \/ IsNaN(w.distance) \/ IsNaN(w.bearing)

\* C15: when origin and destination coincide, generateWaypoints(origin, origin, n)
\* with n >= 1 returns n + 1 waypoints that all sit at the origin with distance 0,
\* and none of them has a NaN coordinate.
C15_CoincidentEndpointsStayAtOrigin ==
  (HasWaypoints /\ origin = destination) =>
    /\ Len(waypoints) = numPoints + 1
    /\ \A k \in 1..Len(waypoints) :
         /\ waypoints[k].lat = origin.lat
         /\ waypoints[k].lon = origin.lon
         /\ waypoints[k].distance = Whole(0)
         /\ ~HasNaN(waypoints[k])

\* four waypoints of a route from an airport to itself
C15_Witness ==
  /\ pc = "waypoints"
  /\ origin = destination
  /\ origin.lon = Whole(2)
  /\ Len(waypoints) = 4
  /\ waypoints[4].distance = Whole(0)

\* C16 as stated: generateWaypoints and generateFlightTimeline return without
\* throwing for every point count n >= 0, n = 0 included, and every pair of endpoints.
C16_NeverThrows == pc # "threw"

\* C17 as stated: for every latitude, longitude and instant calculateSunPosition
\* returns an azimuth in [0, 360) and a zenith exactly equal to 90 minus the
\* (refracted) altitude it returns.
C17_AzimuthInRangeZenithComplement ==
  (pc = "returned" /\ args.call = "calculateSunPosition") =>
    /\ FGe(result.azimuth, Whole(0))
    /\ FLt(result.azimuth, Whole(360))
    /\ FEq(result.zenith, FSub(Whole(90), result.altitude))

\* C18: getJulianDay returns 2451545.0 for 2000-01-01T12:00:00Z, and for two UTC
\* instants at whole seconds t1 <= t2 the difference JD(t2) - JD(t1) equals
\* (t2 - t1) / 86400 seconds, across month ends, year ends and leap days too.
C18_JulianDayCountsDays ==
  (pc = "returned" /\ args.call = "getJulianDay") =>
    /\ args.t1 = 946728000 =>
         (result.jd1.jdn = 2451545 /\ result.jd1.fraction = Whole(0))
    /\ args.t2 = 946728000 =>
         (result.jd2.jdn = 2451545 /\ result.jd2.fraction = Whole(0))
    /\ FEq(JulianDifference(result.jd2, result.jd1), Num(args.t2 - args.t1, 86400))

\* from noon of 2000-01-01 to the leap day of 2004
C18_Witness ==
  /\ pc = "returned"
  /\ args.call = "getJulianDay"
  /\ args.t1 = 946728000
  /\ args.t2 = 1078012800
  /\ result.jd1.jdn = 2451545
  /\ result.jd2.jdn > result.jd1.jdn

\* C19: no core operation changes its arguments: the caller's Date is the same after
\* calculateDaylightInfo and calculateSolarNoon as before, origin and destination
\* are the same after generateWaypoints and generateFlightTimeline, and the timeline
\* and its points are the same after analyzeFlightSunExposure.
C19_ArgumentsUnchanged ==
  [][ /\ args' = args
      /\ origin' = origin
      /\ destination' = destination
      /\ departureTime' = departureTime
      /\ AnalyzeFlightSunExposure => timeline' = timeline ]_vars

\* calculateDaylightInfo has returned a sunrise and a solar noon that differ from the
\* caller's Date, which has its milliseconds still
C19_Witness ==
  /\ pc = "returned"
  /\ args.call = "calculateDaylightInfo"
  /\ args.date = 55800500
  /\ result.sunrise # Null
  /\ result.sunrise[1] # args.date
  /\ result.solarNoon # args.date

\* the side calculateAircraftSunExposure returns for the values the point holds
ActualSide(point) ==
  calculateAircraftSunExposure(point.heading, point.sunAzimuth, point.sunAltitude).side

\* the number of the first k points whose actual side is the given one
RECURSIVE ActualSideCount(_, _, _)
ActualSideCount(points, side, k) ==
  IF k = 0 THEN 0
  ELSE ActualSideCount(points, side, k - 1)
         + (IF ActualSide(points[k]) = side THEN 1 ELSE 0)

\* the minutes a side is due: one slice for each point whose actual side it is
ActualSideMinutes(side) ==
  FMul(MinutePerPoint(timeline),
       Whole(ActualSideCount(timeline.points, side, Len(timeline.points))))

\* C20: analyzeFlightSunExposure charges each point's slice to the side that
\* calculateAircraftSunExposure returns for the point's heading, sunAzimuth and
\* sunAltitude as they are, a sunAltitude or sunAzimuth of exactly 0 included.
C20_SliceChargedToActualSide ==
  (pc = "analyzed" /\ Len(timeline.points) >= 1) =>
    /\ FEq(analysis.leftSideMinutes, ActualSideMinutes("LEFT"))
    /\ FEq(analysis.rightSideMinutes, ActualSideMinutes("RIGHT"))
    /\ FEq(analysis.overheadMinutes, ActualSideMinutes("OVERHEAD"))
    /\ FEq(analysis.noSunMinutes, ActualSideMinutes("NONE"))

\* the conditions of the recommendation rules, on the totals of the analysis
DaylightTotal ==
  FAdd(FAdd(analysis.leftSideMinutes, analysis.rightSideMinutes),
       analysis.overheadMinutes)

MostlyNight == FGt(analysis.noSunMinutes, FMul(Num(4, 5), timeline.totalDuration))

MostlyOverhead == FGt(analysis.overheadMinutes, FMul(Num(2, 5), timeline.totalDuration))

LeftHeavy == FGt(analysis.leftSideMinutes, FMul(Whole(2), analysis.rightSideMinutes))

RightHeavy == FGt(analysis.rightSideMinutes, FMul(Whole(2), analysis.leftSideMinutes))

MostlyDaylight == FGt(FDiv(DaylightTotal, timeline.totalDuration), Num(4, 5))

HasSunEvents == timeline.sunEvents # <<>>

\* C21: the recommendation is that of the first rule that matches, in the order
\* red-eye (no sun over 80% of the duration), tropical (overhead over 40%), LEFT-heavy
\* (left over twice right; "most" when left is over 0.7 of the daylight total),
\* RIGHT-heavy (mirrored), full daytime (daylight total over 80%), sunrise or sunset
\* by the type of the first sun event, and balanced when none matches.
C21_RecommendationByFirstMatchingRule ==
  pc = "analyzed" =>
    analysis.recommendation =
      CASE MostlyNight    -> "red-eye"
        [] ~MostlyNight /\ MostlyOverhead -> "tropical"
        [] ~MostlyNight /\ ~MostlyOverhead /\ LeftHeavy ->
             IF FGt(FDiv(analysis.leftSideMinutes, DaylightTotal), Num(7, 10))
             THEN "LEFT most" ELSE "LEFT more"
        [] ~MostlyNight /\ ~MostlyOverhead /\ ~LeftHeavy /\ RightHeavy ->
             IF FGt(FDiv(analysis.rightSideMinutes, DaylightTotal), Num(7, 10))
             THEN "RIGHT most" ELSE "RIGHT more"
        [] ~MostlyNight /\ ~MostlyOverhead /\ ~LeftHeavy /\ ~RightHeavy
             /\ MostlyDaylight -> "daytime"
        [] ~MostlyNight /\ ~MostlyOverhead /\ ~LeftHeavy /\ ~RightHeavy
             /\ ~MostlyDaylight /\ HasSunEvents ->
             IF timeline.sunEvents[1].type = "sunrise" THEN "sunrise" ELSE "sunset"
        [] OTHER -> "balanced"

\* an analysed flight with a side rule matching although the daylight total is over
\* 80% of the duration: LEFT has more sunlight without having most of it
C21_Witness ==
  /\ pc = "analyzed"
  /\ analysis.recommendation = "LEFT more"
  /\ MostlyDaylight

\* C22: findSunEvent always terminates: it evaluates the sun position at most 20
\* times, makes no evaluation once the window is narrower than 10 seconds, and
\* returns its current upper bound, whatever altitudes it is given.
C22_SearchTerminates ==
  /\ [](args.i <= 20)
  /\ [][args'.i # args.i =>
          ~FLt(FSub(args.high, args.low), Whole(10000))]_vars
  /\ [](pc = "returned" => result = args.high)
  /\ <>(pc = "returned")

\* a search that ran into the 20 iteration cap and returned
C22_Witness ==
  /\ pc = "returned"
  /\ args.i = 20
  /\ result = args.high

\* C23: in every waypoint sequence generated with n >= 1, each waypoint before the
\* last carries the initial bearing from itself to the waypoint after it, the last
\* waypoint carries the bearing of the one before it, and every bearing is in
\* [0, 360).
C23_BearingsPointToNextWaypoint ==
  (HasWaypoints /\ numPoints >= 1 /\ Len(waypoints) = numPoints + 1) =>
    /\ \A k \in 1..numPoints :
         FEq(waypoints[k].bearing,
             calculateInitialBearing(waypoints[k].lat, waypoints[k].lon,
                                     waypoints[k + 1].lat, waypoints[k + 1].lon))
    /\ waypoints[numPoints + 1].bearing = waypoints[numPoints].bearing
    /\ \A k \in 1..(numPoints + 1) :
         FGe(waypoints[k].bearing, Whole(0)) /\ FLt(waypoints[k].bearing, Whole(360))

\* a westward route of three segments across the antimeridian, its longitudes
\* carried below -180
C23_Witness ==
  /\ HasWaypoints
  /\ numPoints = 3
  /\ Len(waypoints) = 4
  /\ \A k \in 1..4 : waypoints[k].bearing = Whole(270)
  /\ FLt(waypoints[4].lon, Whole(-180))

\* C24: while playback is on, a timer tick below the last index advances currentIndex
\* by exactly 1; a tick at the last index leaves the index and turns isPlaying off.
\* With no user input and the timer firing, playback started at any index reaches the
\* last point and stops there.
C24_PlaybackRunsToTheEndAndStops ==
  /\ [][isPlaying =>
          IF currentIndex < Len(timeline.points) - 1
          THEN currentIndex' = currentIndex + 1 /\ isPlaying'
          ELSE currentIndex' = currentIndex /\ ~isPlaying']_vars
  /\ <>[](currentIndex = Len(timeline.points) - 1 /\ ~isPlaying)

\* playback has stopped at the last of four points
C24_Witness ==
  /\ pc = "display"
  /\ Len(timeline.points) = 4
  /\ currentIndex = 3
  /\ ~isPlaying

\* C26: while a timeline is displayed, currentIndex is a valid index of its points,
\* after any interleaving of playback ticks, clicks and drags on the progress bar,
\* the skip buttons, play / pause, submitting a flight and resetting the view.
C26_CurrentIndexIsValid ==
  pc = "display" =>
    /\ currentIndex \in Int
    /\ 0 <= currentIndex
    /\ currentIndex <= Len(timeline.points) - 1

\* the progress bar is being dragged, playback is on, and the last of four points is
\* shown
C26_Witness ==
  /\ pc = "display"
  /\ isDragging
  /\ isPlaying
  /\ Len(timeline.points) = 4
  /\ currentIndex = 3

\* C25: for every timezone of the list and every date and time entered, the instant
\* handleSubmit passes to onSubmit is the wall-clock time read as UTC less the
\* zone's listed offset, half hours included, across midnight, a month end, a leap
\* day and a year end.
C25_DepartureIsLocalTimeLessOffset ==
  (pc = "returned" /\ args.call = "handleSubmit") =>
    Whole(result.departureDate) =
      FSub(Whole(DateUTC(args.date[1], args.date[2] - 1, args.date[3],
                         args.time[1], args.time[2])),
           FMul(args.timezone.offset, Whole(60)))

\* 00:15 on March 1 of a leap year in India, which is 18:45 on February 29 in UTC
C25_Witness ==
  /\ pc = "returned"
  /\ args.call = "handleSubmit"
  /\ args.date = <<2024, 3, 1>>
  /\ args.time = <<0, 15>>
  /\ args.timezone.value = "Asia/Kolkata"
  /\ result.departureDate = DateUTC(2024, 1, 29, 18, 45)

\* C27: in every timeline the sun events are listed by strictly increasing
\* pointIndex, each in 1..points.length - 1, consecutive events differ in type, and
\* the first event is a sunset if point 0 is in daylight and a sunrise otherwise.
C27_SunEventsAlternateInOrder ==
  HasTimeline =>
    /\ \A j \in 1..Len(timeline.sunEvents) :
         /\ timeline.sunEvents[j].pointIndex >= 1
         /\ timeline.sunEvents[j].pointIndex <= Len(timeline.points) - 1
    /\ \A j \in 1..(Len(timeline.sunEvents) - 1) :
         /\ timeline.sunEvents[j].pointIndex < timeline.sunEvents[j + 1].pointIndex
         /\ timeline.sunEvents[j].type # timeline.sunEvents[j + 1].type
    /\ timeline.sunEvents # <<>> =>
         timeline.sunEvents[1].type =
           IF timeline.points[1].isDaylight THEN "sunset" ELSE "sunrise"

\* a flight that starts in the dark and sees a sunrise, a sunset and a sunrise
C27_Witness ==
  /\ HasTimeline
  /\ Len(timeline.sunEvents) = 3
  /\ ~timeline.points[1].isDaylight
  /\ timeline.sunEvents[1].type = "sunrise"
  /\ timeline.sunEvents[3].pointIndex = 3

\* the waypoints pushed by the loop of generateWaypoints, as they are passed to
\* handleAntimeridianCrossing
PushedWaypoints ==
  WaypointLoop([lat |-> origin.lat, lon |-> origin.lon],
               [lat |-> destination.lat, lon |-> destination.lon], numPoints, 0, <<>>)

\* C28: handleAntimeridianCrossing changes nothing but longitudes: the waypoints are
\* as many and in the same order, each with its lat, distance and bearing, the first
\* longitude is unchanged and every other longitude is changed by 0, +360 or -360.
C28_OnlyLongitudesMoveByWholeTurns ==
  HasWaypoints =>
    /\ Len(waypoints) = Len(PushedWaypoints)
    /\ \A k \in 1..Len(waypoints) :
         /\ waypoints[k].lat = PushedWaypoints[k].lat
         /\ waypoints[k].distance = PushedWaypoints[k].distance
         /\ waypoints[k].bearing = PushedWaypoints[k].bearing
         /\ FSub(waypoints[k].lon, PushedWaypoints[k].lon)
              \in {Whole(0), Whole(360), Whole(-360)}
    /\ waypoints[1].lon = PushedWaypoints[1].lon

\* an eastward route across the antimeridian: the first longitude is as pushed, the
\* last was moved up by 360
C28_Witness ==
  /\ HasWaypoints
  /\ numPoints = 3
  /\ waypoints[1].lon = Whole(179)
  /\ PushedWaypoints[4].lon = Whole(-179)
  /\ waypoints[4].lon = Whole(181)

\* the search started from a window of at most 24 hours with low <= high
WithinADay ==
  /\ ~IsNaN(args.from[1])
  /\ ~IsNaN(args.from[2])
  /\ FLe(args.from[1], args.from[2])
  /\ FLe(FSub(args.from[2], args.from[1]), Whole(24 * 3600 * 1000))

\* C29: from a window of at most 24 hours with low <= high, the loop of findSunEvent
\* halves the window at most 14 times and stops because the window is narrower than
\* 10 seconds, never because of the 20 iteration cap.
C29_StopsByPrecisionWithin14Halvings ==
  WithinADay =>
    /\ args.i <= 14
    /\ pc = "returned" => FLt(FSub(args.high, args.low), Whole(10000))

\* a search over a whole day that has returned after 14 halvings
C29_Witness ==
  /\ pc = "returned"
  /\ args.from = <<Whole(0), Whole(24 * 3600 * 1000)>>
  /\ args.i = 14
  /\ FLt(FSub(args.high, args.low), Whole(10000))

\* the ratio "intensity" of a side rule: the side's minutes over the daylight total
SideRatio(sideMinutes) == FDiv(sideMinutes, DaylightTotal)

\* C30: whenever the recommendation is one of the LEFT-heavy or RIGHT-heavy messages,
\* leftMinutes + rightMinutes + overheadMinutes is strictly positive and the side's
\* ratio is a number in (0, 1]: no division by zero is made in that branch.
C30_SideRatioIsDefined ==
  pc = "analyzed" =>
    /\ analysis.recommendation \in {"LEFT most", "LEFT more"} =>
         /\ FGt(DaylightTotal, Whole(0))
         /\ FGt(SideRatio(analysis.leftSideMinutes), Whole(0))
         /\ FLe(SideRatio(analysis.leftSideMinutes), Whole(1))
    /\ analysis.recommendation \in {"RIGHT most", "RIGHT more"} =>
         /\ FGt(DaylightTotal, Whole(0))
         /\ FGt(SideRatio(analysis.rightSideMinutes), Whole(0))
         /\ FLe(SideRatio(analysis.rightSideMinutes), Whole(1))

\* the RIGHT-heavy branch taken with sun on the right only: the ratio is 1
C30_Witness ==
  /\ pc = "analyzed"
  /\ analysis.recommendation = "RIGHT most"
  /\ analysis.leftSideMinutes = Whole(0)
  /\ analysis.overheadMinutes = Whole(0)
  /\ SideRatio(analysis.rightSideMinutes) = Whole(1)

====
